---- MODULE Spec2Model ----
(***************************************************************************)
(* A model of the Series core of netxops/frame (package series): typed,    *)
(* named columns of Element cells kept in backing arrays, the operations   *)
(* that read, transform and mutate them, and the sticky error they carry.  *)
(*                                                                         *)
(* The state is a small client program of the package: a few Series        *)
(* variables (registers) over a heap of backing arrays, so that aliasing   *)
(* between a Series value and the copies of it that share its array is     *)
(* visible.  Every operation of series.go is one action; the pure parts    *)
(* are operators that are computed the way the code computes them.         *)
(*                                                                         *)
(* Numbers are scaled: Go's int is IntBits wide instead of 64, float64     *)
(* keeps MantBits significant bits instead of 53 and has a smallest step   *)
(* of 2^-FracBits.  The relation that matters is kept: MantBits < IntBits, *)
(* so large ints are not exactly representable as floats.                  *)
(***************************************************************************)
EXTENDS Integers, Sequences, FiniteSets, TLC

\* ------------------------------------------------------------------ bounds

\* Width of Go's int in the model (stands for 64).
IntBits == 6
\* Significant bits of a float64 in the model (stands for 53).
MantBits == 4
\* A finite float64 is an integer count of 2^-FracBits.
FracBits == 1
\* Longest Series that is built.
MaxLen == 2

RECURSIVE Pow2(_)
Pow2(n) == IF n <= 0 THEN 1 ELSE 2 * Pow2(n - 1)

MinInt == 0 - Pow2(IntBits - 1)
MaxInt == Pow2(IntBits - 1) - 1
\* The smallest positive int that float64 cannot hold (stands for 2^53 + 1).
BigOdd == Pow2(MantBits) + 1
\* One unit of a float64, as a count of 2^-FracBits.
One == Pow2(FracBits)

Abs(n) == IF n < 0 THEN 0 - n ELSE n
Sgn(n) == IF n < 0 THEN 0 - 1 ELSE 1

\* The exact integer n reduced modulo 2^IntBits into the signed range.
WrapInt(n) == ((n - MinInt) % Pow2(IntBits)) + MinInt

\* ------------------------------------------------------- native Go values

\* A value of Go's interface{}: k is the dynamic type, c tells a NaN from a
\* finite number, v is the payload (an int; a float64 as a count of
\* 2^-FracBits; a string as its code; a bool as 0 or 1).
IntKinds == {"int", "int8", "int16", "int32", "int64"}
UintKinds == {"uint", "uint8", "uint16", "uint32", "uint64"}
FloatKinds == {"float32", "float64"}

I(n) == [k |-> "int", c |-> "fin", v |-> n]
F(u) == [k |-> "float64", c |-> "fin", v |-> u]
NaN == [k |-> "float64", c |-> "nan", v |-> 0]
S(code) == [k |-> "string", c |-> "fin", v |-> code]
B(b) == [k |-> "bool", c |-> "fin", v |-> IF b THEN 1 ELSE 0]
Nil == [k |-> "nil", c |-> "fin", v |-> 0]
K(kind, n) == [k |-> kind, c |-> "fin", v |-> n]

\* ------------------------------------------------------ float64 arithmetic

\* The number of low bits a magnitude a/den loses to fit MantBits bits.
RECURSIVE Shift(_, _, _)
Shift(a, den, s) ==
    IF a \div (den * Pow2(s)) < Pow2(MantBits) THEN s ELSE Shift(a, den, s + 1)

\* num/den rounded to the nearest float64, ties to the even mantissa.
RoundMant(a, D) ==
    LET m == a \div D
        rem == a - m * D
    IN  IF (2 * rem > D) \/ (2 * rem = D /\ m % 2 = 1) THEN m + 1 ELSE m
RoundAt(a, den, s) == RoundMant(a, den * Pow2(s)) * Pow2(s)
RoundRat(num, den) == Sgn(num) * RoundAt(Abs(num), den, Shift(Abs(num), den, 0))

\* cast.ToFloat64E on an integer kind: float64(n).
ToFloat64(n) == RoundRat(n * One, 1)

\* a op b on finite float64 values (b # 0 for "div").
FloatOp(op, a, b) ==
    CASE op = "add" -> RoundRat(a + b, 1)
      [] op = "sub" -> RoundRat(a - b, 1)
      [] op = "mul" -> RoundRat(a * b, One)
      [] op = "div" -> RoundRat(Sgn(b) * a * One, Abs(b))

\* int(f) for a float64 f: truncation toward zero; a value that int cannot
\* hold, and NaN, convert to a result that depends on the build: amd64 gives
\* the most negative int, arm64 saturates (and turns NaN into 0).
FloatToInt(build, c, u) ==
    LET q == Sgn(u) * (Abs(u) \div One)
    IN  IF c = "fin" /\ q >= MinInt /\ q <= MaxInt THEN q
        ELSE IF build = "amd64" THEN MinInt
        ELSE IF c = "nan" THEN 0
        ELSE IF u < 0 THEN MinInt ELSE MaxInt

\* ---------------------------------------------------------------- Element

Types == {"string", "int", "float", "bool"}

\* One cell of a backing array: the type tag, the not-a-value flag and the
\* payload.  The cell that make() allocates is the zero cell.
Elem(t, nan, v) == [t |-> t, nan |-> nan, v |-> v]
ZeroElem(t) == Elem(t, FALSE, 0)
NaElem(t) == Elem(t, TRUE, 0)

\* Codes of the strings that formatting a number or a bool gives; the
\* strings the client passes have the codes 1, 2, ...
FormatCode(x) ==
    CASE x.k = "bool" -> 3000 + x.v
      [] x.k \in FloatKinds -> 2000 + x.v
      [] OTHER -> 1000 + x.v

\* Element.Set(value): the cell of type t that holds the native value x.
ElemSet(build, t, x) ==
    CASE t = "int" ->
            (CASE x.k = "int" -> Elem(t, FALSE, x.v)
               [] x.k = "bool" -> Elem(t, FALSE, x.v)
               [] x.k = "float64" /\ x.c = "fin" ->
                    Elem(t, FALSE, FloatToInt(build, x.c, x.v))
               [] OTHER -> NaElem(t))
      [] t = "float" ->
            (CASE x.k = "int" -> Elem(t, FALSE, ToFloat64(x.v))
               [] x.k = "bool" -> Elem(t, FALSE, x.v * One)
               [] x.k = "float64" /\ x.c = "fin" -> Elem(t, FALSE, x.v)
               [] OTHER -> NaElem(t))
      [] t = "string" ->
            (CASE x.k = "string" -> Elem(t, FALSE, x.v)
               [] x.k = "nil" -> NaElem(t)
               [] x.k = "float64" /\ x.c = "nan" -> NaElem(t)
               [] OTHER -> Elem(t, FALSE, FormatCode(x)))
      [] t = "bool" ->
            (CASE x.k = "bool" -> Elem(t, FALSE, x.v)
               [] x.k = "int" /\ x.v \in {0, 1} -> Elem(t, FALSE, x.v)
               [] x.k = "float64" /\ x.c = "fin" /\ x.v \in {0, One} ->
                    Elem(t, FALSE, x.v \div One)
               [] OTHER -> NaElem(t))
      [] OTHER -> NaElem(t)

\* Element.Val(): the native value of a cell, nil when the cell holds none.
ElemVal(e) ==
    IF e.nan THEN Nil
    ELSE CASE e.t = "int" -> I(e.v)
           [] e.t = "float" -> F(e.v)
           [] e.t = "string" -> S(e.v)
           [] e.t = "bool" -> K("bool", e.v)
           [] OTHER -> Nil

\* Element.IsNA(): only a Float cell reports not-available.
IsNA(e) == e.t = "float" /\ e.nan

\* Element.Eq, Neq, Less, LessEq, Greater, GreaterEq between cells of one
\* type: false as soon as one side holds no value.
ElemEq(a, b) == ~a.nan /\ ~b.nan /\ a.v = b.v
ElemNeq(a, b) == ~a.nan /\ ~b.nan /\ a.v # b.v
ElemLess(a, b) == ~a.nan /\ ~b.nan /\ a.v < b.v
ElemLessEq(a, b) == ~a.nan /\ ~b.nan /\ a.v <= b.v
ElemGreater(a, b) == ~a.nan /\ ~b.nan /\ a.v > b.v
ElemGreaterEq(a, b) == ~a.nan /\ ~b.nan /\ a.v >= b.v

\* Element.Set(Element): a cell of type t set from another cell.
ElemSetElem(build, t, e) == ElemSet(build, t, ElemVal(e))

\* ----------------------------------------------------------------- Series

\* The Series variables of the client program and the backing arrays.
Regs == {1, 2}
ArrIds == Regs

\* A Series value: its fields, the elements being a slice (array, length)
\* into the heap; array 0 is the nil Elements of the zero Series.
MkSeries(name, t, arr, len, err) ==
    [Name |-> name, t |-> t, elements |-> [arr |-> arr, len |-> len], Err |-> err]
NoSeries == MkSeries("", "", 0, 0, "")

\* An argument of a call: nil, one native value, a slice of native values
\* (lk is the element type of the slice), a Series, or a function.
ArgNil == [kind |-> "nil", lk |-> "", items |-> <<>>, s |-> NoSeries, fn |-> ""]
ArgScalar(x) == [kind |-> "scalar", lk |-> "", items |-> <<x>>, s |-> NoSeries, fn |-> ""]
ArgList(lk, xs) == [kind |-> "list", lk |-> lk, items |-> xs, s |-> NoSeries, fn |-> ""]
ArgSeries(s) == [kind |-> "series", lk |-> "", items |-> <<>>, s |-> s, fn |-> ""]
ArgFunc(f) == [kind |-> "func", lk |-> "", items |-> <<>>, s |-> NoSeries, fn |-> f]

\* Series.Len(): the length of the elements.
SeriesLen(s) == s.elements.len
IsNilElements(s) == s.elements.arr = 0
\* The cells of s, in order.
Elems(h, s) ==
    IF IsNilElements(s) THEN <<>> ELSE SubSeq(h[s.elements.arr], 1, s.elements.len)

\* What a call gives back: the returned Series (arr = -1: its elements are a
\* newly allocated array holding cells), the heap after the writes made in
\* place, the returned index list of Order, and whether the call panicked.
Ret(s, cells, h) == [s |-> s, cells |-> cells, heap |-> h, ret |-> <<>>, panic |-> FALSE]
Shared(s, err, h) == Ret([s EXCEPT !.Err = err], <<>>, h)
Fresh(name, t, err, cells, len, h) == Ret(MkSeries(name, t, 0 - 1, len, err), cells, h)
Panicked(h) == [s |-> NoSeries, cells |-> <<>>, heap |-> h, ret |-> <<>>, panic |-> TRUE]

\* The cells that New(values, t, name) allocates and sets.
NewCells(build, h, values, t) ==
    CASE values.kind = "nil" -> <<NaElem(t)>>
      [] values.kind = "scalar" -> <<ElemSet(build, t, values.items[1])>>
      [] values.kind = "list" ->
            [i \in 1..Len(values.items) |-> ElemSet(build, t, values.items[i])]
      [] values.kind = "series" ->
            [i \in 1..SeriesLen(values.s) |->
                ElemSetElem(build, t, Elems(h, values.s)[i])]
      [] OTHER -> <<NaElem(t)>>

\* New(values, t, name); an unknown type panics in preAlloc.
New(build, h, values, t, name) ==
    IF t \notin Types THEN Panicked(h)
    ELSE LET cells == NewCells(build, h, values, t)
         IN  Fresh(name, t, "", cells, Len(cells), h)

\* Series.Empty(): New([]int{}, s.t, s.Name).
Empty(build, h, s) == New(build, h, ArgList("int", <<>>), s.t, s.Name)

CopyAliased(h, s) == Ret(s, <<>>, h)

\* Series.Copy(): the same fields over a new array of the same cells; a
\* Series of a known type with nil elements panics in Len.
Copy(h, s) ==
    IF s.t \notin Types THEN Ret(MkSeries(s.Name, s.t, 0, 0, s.Err), <<>>, h)
    ELSE IF IsNilElements(s) THEN Panicked(h)
    ELSE Fresh(s.Name, s.t, s.Err, Elems(h, s), SeriesLen(s), h)

\* The capacity append() gives a slice that has to grow (runtime growslice,
\* below the size where it rounds).
GrowCap(oldcap, need) == IF need > 2 * oldcap THEN need ELSE 2 * oldcap

\* append(a[:len], news...) on the array content a: in place when the
\* capacity allows, else into a new array.
AppendCells(t, a, len, news) ==
    LET need == len + Len(news)
    IN  IF Len(news) = 0 THEN [inplace |-> TRUE, cells |-> a, len |-> len]
        ELSE IF need <= Len(a)
        THEN [inplace |-> TRUE,
              cells |-> [i \in 1..Len(a) |->
                            IF i > len /\ i <= need THEN news[i - len] ELSE a[i]],
              len |-> need]
        ELSE [inplace |-> FALSE,
              cells |-> [i \in 1..GrowCap(Len(a), need) |->
                            IF i <= len THEN a[i]
                            ELSE IF i <= need THEN news[i - len]
                            ELSE ZeroElem(t)],
              len |-> need]

\* Series.Append(values): the receiver variable afterwards.
SeriesAppend(build, h, s, values) ==
    IF s.Err # "" THEN Shared(s, s.Err, h)
    ELSE IF s.t \notin Types \/ IsNilElements(s) THEN Panicked(h)
    ELSE LET news == NewCells(build, h, values, s.t)
             a == AppendCells(s.t, h[s.elements.arr], SeriesLen(s), news)
         IN  IF a.inplace
             THEN Ret(MkSeries(s.Name, s.t, s.elements.arr, a.len, s.Err), <<>>,
                      [h EXCEPT ![s.elements.arr] = a.cells])
             ELSE Fresh(s.Name, s.t, s.Err, a.cells, a.len, h)

\* Series.Concat(x): a copy of s with the elements of x appended.
Concat(build, h, s, x) ==
    IF s.Err # "" THEN Shared(s, s.Err, h)
    ELSE IF x.Err # ""
    THEN Shared(s, "concat error: argument has errors: " \o x.Err, h)
    ELSE IF s.t \notin Types \/ IsNilElements(s) THEN Panicked(h)
    ELSE LET news == NewCells(build, h, ArgSeries(x), s.t)
             a == AppendCells(s.t, Elems(h, s), SeriesLen(s), news)
         IN  Fresh(s.Name, s.t, s.Err, a.cells, a.len, h)

\* ------------------------------------------------------ indexing, Subset, Set

\* The positions of a []bool that hold true, in increasing order (0-based).
RECURSIVE TruePositions(_, _)
TruePositions(bools, i) ==
    IF i > Len(bools) THEN <<>>
    ELSE (IF bools[i] THEN <<i - 1>> ELSE <<>>) \o TruePositions(bools, i + 1)

\* parseIndexes(l, indexes): the index list, or an error.  No bounds check.
parseIndexes(h, l, indexes) ==
    LET ok(idx) == [idx |-> idx, err |-> ""]
        bad(e) == [idx |-> <<>>, err |-> e]
        mask(bools) ==
            IF Len(bools) # l THEN bad("indexing error: index dimensions mismatch")
            ELSE ok(TruePositions(bools, 1))
    IN  CASE indexes.kind = "list" /\ indexes.lk = "int" ->
                ok([i \in 1..Len(indexes.items) |-> indexes.items[i].v])
          [] indexes.kind = "scalar" /\ indexes.items[1].k = "int" ->
                ok(<<indexes.items[1].v>>)
          [] indexes.kind = "list" /\ indexes.lk = "bool" ->
                mask([i \in 1..Len(indexes.items) |-> indexes.items[i].v = 1])
          [] indexes.kind = "series" ->
                LET s == indexes.s
                    es == Elems(h, s)
                IN  IF s.Err # ""
                    THEN bad("indexing error: new values has errors: " \o s.Err)
                    ELSE IF \E i \in 1..Len(es) : IsNA(es[i])
                    THEN bad("indexing error: indexes contain NaN")
                    ELSE IF s.t = "int"
                    THEN IF \E i \in 1..Len(es) : es[i].nan
                         THEN bad("can't convert NaN to int")
                         ELSE ok([i \in 1..Len(es) |-> es[i].v])
                    ELSE IF s.t = "bool"
                    THEN IF \E i \in 1..Len(es) : es[i].nan
                         THEN bad("indexing error: can't convert NaN to bool")
                         ELSE mask([i \in 1..Len(es) |-> es[i].v = 1])
                    ELSE bad("indexing error: unknown indexing mode")
          [] OTHER -> bad("indexing error: unknown indexing mode")

SubsetBackwards(h, s, indexes) ==
    IF s.Err # "" THEN Shared(s, s.Err, h)
    ELSE IF parseIndexes(h, SeriesLen(s), indexes).err # ""
    THEN Shared(s, parseIndexes(h, SeriesLen(s), indexes).err, h)
    ELSE IF \E k \in DOMAIN parseIndexes(h, SeriesLen(s), indexes).idx :
               \/ parseIndexes(h, SeriesLen(s), indexes).idx[k] < 0
               \/ parseIndexes(h, SeriesLen(s), indexes).idx[k] >= SeriesLen(s)
    THEN Panicked(h)
    ELSE Fresh(s.Name, s.t, "",
               [k \in DOMAIN parseIndexes(h, SeriesLen(s), indexes).idx |->
                   Elems(h, s)[parseIndexes(h, SeriesLen(s), indexes).idx[
                       Len(parseIndexes(h, SeriesLen(s), indexes).idx) + 1 - k] + 1]],
               Len(parseIndexes(h, SeriesLen(s), indexes).idx), h)

\* Series.Subset(indexes): the cells at the indexes, copied into a new
\* array; an index outside the slice makes the element access panic.
Subset(h, s, indexes) ==
    IF s.Err # "" THEN Shared(s, s.Err, h)
    ELSE IF IsNilElements(s) THEN Panicked(h)
    ELSE LET p == parseIndexes(h, SeriesLen(s), indexes)
         IN  IF p.err # "" THEN Shared(s, p.err, h)
             ELSE IF s.t \notin Types THEN Panicked(h)
             ELSE IF \E k \in 1..Len(p.idx) : p.idx[k] < 0 \/ p.idx[k] >= SeriesLen(s)
             THEN Panicked(h)
             ELSE Fresh(s.Name, s.t, "",
                        [k \in 1..Len(p.idx) |-> Elems(h, s)[p.idx[k] + 1]],
                        Len(p.idx), h)

\* The loop of Set from position k of the index list: each cell is written
\* in place, and the first index out of range stops the loop with an error.
RECURSIVE SetLoop(_, _, _, _, _, _)
SetLoop(build, h, s, idx, newvalues, k) ==
    IF k > Len(idx) THEN Shared(s, s.Err, h)
    ELSE IF idx[k] < 0 \/ idx[k] >= SeriesLen(s)
    THEN Shared(s, "set error: index out of range", h)
    ELSE SetLoop(build,
                 [h EXCEPT ![s.elements.arr][idx[k] + 1] =
                     ElemSetElem(build, s.t, h[newvalues.elements.arr][k])],
                 s, idx, newvalues, k + 1)

\* Series.Set(indexes, newvalues): writes into the receiver's own array and
\* returns the receiver.
Set(build, h, s, indexes, newvalues) ==
    IF s.Err # "" THEN Shared(s, s.Err, h)
    ELSE IF newvalues.Err # ""
    THEN Shared(s, "set error: argument has errors: " \o newvalues.Err, h)
    ELSE IF IsNilElements(s) THEN Panicked(h)
    ELSE LET p == parseIndexes(h, SeriesLen(s), indexes)
         IN  IF p.err # "" THEN Shared(s, p.err, h)
             ELSE IF IsNilElements(newvalues) THEN Panicked(h)
             ELSE IF Len(p.idx) # SeriesLen(newvalues)
             THEN Shared(s, "set error: dimensions mismatch", h)
             ELSE SetLoop(build, h, s, p.idx, newvalues, 1)

\* Series.Slice(j, k): the elements j..k-1.
Slice(build, h, s, j, k) ==
    IF s.Err # "" THEN Shared(s, s.Err, h)
    ELSE IF IsNilElements(s) THEN Panicked(h)
    ELSE IF j > k \/ j < 0 \/ k >= SeriesLen(s)
    THEN LET e == Empty(build, h, s)
         IN  IF e.panic THEN e
             ELSE [e EXCEPT !.s.Err = "slice index out of bounds"]
    ELSE Subset(h, s, ArgList("int", [i \in 1..(k - j) |-> I(j + i - 1)]))

\* ------------------------------------------------------------ Compare, Map

Comparators == {"==", "!=", ">", ">=", "<", "<=", "in", "func"}

\* compareElements(a, b, c) of Compare: the comparison, or an error for a
\* comparator that is none of the six.
compareElements(a, b, c) ==
    CASE c = "==" -> [ret |-> ElemEq(a, b), err |-> ""]
      [] c = "!=" -> [ret |-> ElemNeq(a, b), err |-> ""]
      [] c = ">" -> [ret |-> ElemGreater(a, b), err |-> ""]
      [] c = ">=" -> [ret |-> ElemGreaterEq(a, b), err |-> ""]
      [] c = "<" -> [ret |-> ElemLess(a, b), err |-> ""]
      [] c = "<=" -> [ret |-> ElemLessEq(a, b), err |-> ""]
      [] OTHER -> [ret |-> FALSE, err |-> "unknown comparator: " \o c]

\* The predicates a client passes with the comparator func.
CompFuncs == {"isNA", "hasValue"}
ApplyCompFunc(f, e) == IF f = "isNA" THEN IsNA(e) ELSE ~e.nan

\* Bools(bools): the Bool Series of a []bool.
Bools(build, h, bools) ==
    New(build, h, ArgList("bool", [i \in 1..Len(bools) |-> B(bools[i])]), "bool", "")

\* The In loop comparing with the first element of comp only.
InLoopFirstOnly(e, comp, j) ==
    Len(comp) >= 1 /\ compareElements(e, comp[1], "==").ret

\* The inner loop of the In comparison: whether e equals some element of
\* comp from position j on, stopping at the first match.
RECURSIVE InLoop(_, _, _)
InLoop(e, comp, j) ==
    IF j > Len(comp) THEN FALSE
    ELSE IF compareElements(e, comp[j], "==").ret THEN TRUE
    ELSE InLoop(e, comp, j + 1)

\* s.Empty() with the error set, as Compare returns it on a failure.
CompareFail(build, h, s, err) ==
    LET e == Empty(build, h, s)
    IN  IF e.panic THEN e ELSE [e EXCEPT !.s.Err = err]

\* Series.Compare(comparator, comparando).
Compare(build, h, s, comparator, comparando) ==
    IF s.Err # "" THEN Shared(s, s.Err, h)
    ELSE IF IsNilElements(s) THEN Panicked(h)
    ELSE LET es == Elems(h, s)
             n == Len(es)
         IN  IF comparator = "func"
             THEN IF comparando.kind # "func" THEN Panicked(h)
                  ELSE Bools(build, h, [i \in 1..n |-> ApplyCompFunc(comparando.fn, es[i])])
             ELSE IF s.t \notin Types THEN Panicked(h)
             ELSE LET comp == NewCells(build, h, comparando, s.t)
                      one(i) == compareElements(es[i], comp[1], comparator)
                      pair(i) == compareElements(es[i], comp[i], comparator)
                  IN  IF comparator = "in"
                      THEN Bools(build, h, [i \in 1..n |-> InLoop(es[i], comp, 1)])
                      ELSE IF Len(comp) = 1
                      THEN IF n > 0 /\ one(1).err # ""
                           THEN CompareFail(build, h, s, one(1).err)
                           ELSE Bools(build, h, [i \in 1..n |-> one(i).ret])
                      ELSE IF n # Len(comp)
                      THEN CompareFail(build, h, s, "can't compare: length mismatch")
                      ELSE IF n > 0 /\ pair(1).err # ""
                      THEN CompareFail(build, h, s, pair(1).err)
                      ELSE Bools(build, h, [i \in 1..n |-> pair(i).ret])

\* The functions a client maps: the element itself, or a new element of
\* the same type holding the zero value.
MapFuncs == {"ident", "zero"}
ApplyMapFunc(f, e) == IF f = "ident" THEN e ELSE ZeroElem(e.t)

\* Series.Map(f): New over the mapped elements, with the type and name of s.
Map(build, h, s, f) ==
    IF IsNilElements(s) THEN Panicked(h)
    ELSE LET es == Elems(h, s)
             mapped == [i \in 1..Len(es) |-> ApplyMapFunc(f, es[i])]
         IN  IF s.t \notin Types THEN Panicked(h)
             ELSE Fresh(s.Name, s.t, "",
                        [i \in 1..Len(es) |-> ElemSetElem(build, s.t, mapped[i])],
                        Len(es), h)

\* --------------------------------------------------------------- arithmetic

ArithOps == {"add", "sub", "mul", "div"}

\* fmt's %T (and reflect.TypeOf) of an argument.
TypeName(value) ==
    CASE value.kind = "scalar" -> value.items[1].k
      [] value.kind = "nil" -> "<nil>"
      [] value.kind = "list" -> "[]" \o value.lk
      [] value.kind = "series" -> "series.Series"
      [] OTHER -> "func"

\* One operand of operator after its type switch: a float64, or the error
\* of the default branch (float32, nil, string and bool end there).
Operand(x) ==
    IF x.k = "float64" THEN [c |-> x.c, v |-> x.v, err |-> ""]
    ELSE IF x.k \in IntKinds \cup UintKinds
    THEN [c |-> "fin", v |-> ToFloat64(x.v), err |-> ""]
    ELSE [c |-> "fin", v |-> 0,
          err |-> "unsupported type for arithmetic operation: "
                  \o (IF x.k = "nil" THEN "<nil>" ELSE x.k)]

\* operator(a, b, op, finalType): the element a op b, computed in float64
\* and converted to finalType, or an error.
operatorConvert(build, c, v, finalType) ==
    IF finalType = "int"
    THEN [e |-> Elem("int", FALSE, FloatToInt(build, c, v)), err |-> ""]
    ELSE [e |-> Elem("float", c = "nan", v), err |-> ""]
operatorFail(finalType, err) == [e |-> NaElem(finalType), err |-> err]
operatorSwitch(build, fa, fb, op, finalType) ==
    IF finalType \notin {"int", "float"}
    THEN operatorFail(finalType,
             "cannot perform arithmetic operation between series of different types")
    ELSE IF fa.err # "" THEN operatorFail(finalType, fa.err)
    ELSE IF fb.err # "" THEN operatorFail(finalType, fb.err)
    ELSE IF op \notin ArithOps
    THEN operatorFail(finalType, "unsupported arithmetic operation: " \o op)
    ELSE IF op = "div" /\ fb.c = "fin" /\ fb.v = 0
    THEN operatorFail(finalType, "division by zero")
    ELSE IF fa.c = "nan" \/ fb.c = "nan" THEN operatorConvert(build, "nan", 0, finalType)
    ELSE operatorConvert(build, "fin", FloatOp(op, fa.v, fb.v), finalType)
operator(build, a, b, op, finalType) ==
    operatorSwitch(build, Operand(a), Operand(b), op, finalType)

\* The loop shared by the two arithmetic functions: the result cells, or the
\* first error of operator.
ArithCollect(build, finalType, r) ==
    IF \E i \in DOMAIN r : r[i].err # ""
    THEN [cells |-> <<>>,
          err |-> r[CHOOSE i \in DOMAIN r :
                       r[i].err # "" /\ \A j \in 1..(i - 1) : r[j].err = ""].err]
    ELSE [cells |-> [i \in DOMAIN r |-> ElemSetElem(build, finalType, r[i].e)],
          err |-> ""]
ArithLoop(build, as, bs, op, finalType) ==
    ArithCollect(build, finalType,
                 [i \in 1..Len(as) |-> operator(build, as[i], bs[i], op, finalType)])

\* The end of the two arithmetic functions: the receiver with the error of
\* the loop, or the new Series.
ArithResultEmptied(h, s, name, finalType, r) ==
    IF r.err # "" THEN Fresh(s.Name, s.t, r.err, <<>>, 0, h)
    ELSE Fresh(name, finalType, "", r.cells, Len(r.cells), h)
ArithResult(h, s, name, finalType, r) ==
    IF r.err # "" THEN Shared(s, r.err, h)
    ELSE Fresh(name, finalType, "", r.cells, Len(r.cells), h)

\* The values of the elements of a Series, and n times the scalar x.
ValsOf(es) == [i \in 1..Len(es) |-> ElemVal(es[i])]
Repeat(x, n) == [i \in 1..n |-> x]

\* performArithmetic(s, value, op, name): a scalar operand.
performArithmeticAs(build, h, s, x, op, name, finalType) ==
    IF s.t \notin {"int", "float"}
    THEN Shared(s, "cannot perform arithmetic operation on series of type " \o s.t, h)
    ELSE IF x.k \notin IntKinds \cup UintKinds \cup FloatKinds
    THEN Shared(s, "invalid type for arithmetic operation: " \o x.k, h)
    ELSE IF IsNilElements(s) THEN Panicked(h)
    ELSE ArithResult(h, s, IF name = "" THEN s.Name \o "_" \o op \o "_" \o x.k ELSE name,
                     finalType,
                     ArithLoop(build, ValsOf(Elems(h, s)), Repeat(x, SeriesLen(s)),
                               op, finalType))
performArithmetic(build, h, s, value, op, name) ==
    performArithmeticAs(build, h, s, value.items[1], op, name,
                        IF value.items[1].k \in FloatKinds THEN "float"
                        ELSE IF s.t = "int" THEN "int" ELSE "float")

\* Series.performSeriesArithmetic(other, op, name): a Series operand.
performSeriesArithmeticAs(build, h, s, other, op, name, finalType) ==
    IF s.Err # "" THEN Shared(s, s.Err, h)
    ELSE IF other.Err # "" THEN Shared(s, other.Err, h)
    ELSE IF IsNilElements(s) \/ IsNilElements(other) THEN Panicked(h)
    ELSE IF SeriesLen(s) # SeriesLen(other)
    THEN Shared(s, "cannot perform operation on series of different lengths", h)
    ELSE IF ~(s.t \in {"int", "float"} /\ other.t \in {"int", "float"})
    THEN Shared(s, "cannot perform arithmetic operation between series of different types", h)
    ELSE ArithResult(h, s,
                     IF name = "" THEN s.Name \o "_" \o op \o "_" \o other.Name ELSE name,
                     finalType,
                     ArithLoop(build, ValsOf(Elems(h, s)), ValsOf(Elems(h, other)),
                               op, finalType))
performSeriesArithmetic(build, h, s, other, op, name) ==
    performSeriesArithmeticAs(build, h, s, other, op, name,
                              IF s.t = "int" /\ other.t = "int" THEN "int" ELSE "float")

\* arithmeticOperation(s, value, op, name): Add, Sub, Mul and Div.
arithmeticOperation(build, h, s, value, op, name) ==
    IF s.Err # "" THEN Shared(s, s.Err, h)
    ELSE IF value.kind = "scalar"
            /\ value.items[1].k \in IntKinds \cup UintKinds \cup FloatKinds
    THEN performArithmetic(build, h, s, value, op, name)
    ELSE IF value.kind = "series"
    THEN performSeriesArithmetic(build, h, s, value.s, op, name)
    ELSE Shared(s, "unsupported type for arithmetic operation: " \o TypeName(value), h)

\* -------------------------------------------------------------------- Order

\* indexedElements.Less, and its reversal by sort.Reverse.
OrderLess(a, b, reverse) ==
    IF reverse THEN ElemLess(b.element, a.element) ELSE ElemLess(a.element, b.element)

\* x put into the sorted list after every entry it is not less than.
RECURSIVE InsertStable(_, _, _)
InsertStable(sorted, x, reverse) ==
    IF sorted = <<>> THEN <<x>>
    ELSE IF OrderLess(x, sorted[1], reverse) THEN <<x>> \o sorted
    ELSE <<sorted[1]>> \o InsertStable(Tail(sorted), x, reverse)

\* sort.Stable over the indexed elements: a stable sort by Less.
RECURSIVE StableSort(_, _, _)
StableSort(ie, n, reverse) ==
    IF n = 0 THEN <<>>
    ELSE InsertStable(StableSort(ie, n - 1, reverse), ie[n], reverse)

\* Order with reverse done by reversing the ascending order.
RECURSIVE ReverseSeq(_)
ReverseSeq(q) == IF q = <<>> THEN <<>> ELSE ReverseSeq(Tail(q)) \o <<q[1]>>

OrderReversedAfterwards(h, s, reverse) ==
    LET es == Elems(h, s)
        all == [i \in 1..Len(es) |-> [index |-> i - 1, element |-> es[i]]]
        ie == SelectSeq(all, LAMBDA x : ~IsNA(x.element))
        nasIdx == SelectSeq(all, LAMBDA x : IsNA(x.element))
        asc == StableSort(ie, Len(ie), FALSE)
        srt == IF reverse THEN ReverseSeq(asc) ELSE asc
    IN  [k \in 1..Len(srt) |-> srt[k].index] \o [k \in 1..Len(nasIdx) |-> nasIdx[k].index]

\* Series.Order(reverse): the indexes of the elements that are not NA,
\* sorted, then the indexes of the NA elements in order of appearance.
Order(h, s, reverse) ==
    LET es == Elems(h, s)
        all == [i \in 1..Len(es) |-> [index |-> i - 1, element |-> es[i]]]
        ie == SelectSeq(all, LAMBDA x : ~IsNA(x.element))
        nasIdx == SelectSeq(all, LAMBDA x : IsNA(x.element))
        srt == StableSort(ie, Len(ie), reverse)
    IN  [k \in 1..Len(srt) |-> srt[k].index] \o [k \in 1..Len(nasIdx) |-> nasIdx[k].index]

\* ------------------------------------------------------------ the program

VARIABLES
    regs,   \* the Series variables of the client: register -> Series
    heap,   \* the backing arrays: array -> its cells (the capacity long)
    last,   \* the call made last: operation, receiver, destination, arguments
    build,  \* the architecture the program is built for
    iter,   \* the iterator closure the client holds
    walk,   \* the data the client resolves paths on, and the last resolution
    frame   \* the rows the client holds, and the DataFrame built from them

vars == <<regs, heap, last, build, iter, walk, frame>>

Builds == {"amd64", "arm64"}

\* What an iterator returns: (index, value, ok); done is (-1, nil, false).
Yield(i, v) == [i |-> i, v |-> v, ok |-> TRUE]
Done == [i |-> 0 - 1, v |-> Nil, ok |-> FALSE]

\* The closure ValuesIterator returns: the Series it captured, its options
\* (Step after the replacement of 0 by 1, asked the step passed), the index
\* and the values seen, and with them the value its last call returned and
\* the number of calls made.
NoIter ==
    [live |-> FALSE, s |-> NoSeries, asked |-> 0, Step |-> 1, Reverse |-> FALSE,
     SkipNaN |-> FALSE, OnlyUnique |-> FALSE, index |-> 0, seen |-> {},
     out |-> Done, calls |-> 0]

\* What GetValueByPath returns, (val, err) with the key the error names,
\* or that it panicked; with it the addresses the call dereferenced, in
\* order, its visited set at the end, and the cursor at the top of each
\* iteration of its loop.
NoOut ==
    [val |-> 0, err |-> "", key |-> "", panic |-> FALSE,
     visited |-> {}, derefs |-> <<>>, at |-> <<>>]

\* The data of the client (a graph of values) with the path and the outcome
\* of the last resolution, and the number of resolutions made.
NoWalk == [g |-> <<>>, keys |-> <<>>, out |-> NoOut, calls |-> 0]

\* The error of a frame builder: the message, and the path and the row
\* index it names.
FrameErr(msg, path, row) == [msg |-> msg, path |-> path, row |-> row]
NoErr == FrameErr("", "", 0)

\* The input of FlexibleToDataFrame (slice: it is a slice; rows: its
\* elements), the arguments of the call made on it, and what the call
\* returned: the columns of the DataFrame and the error, or a panic.
NoFrame ==
    [slice |-> TRUE, rows |-> <<>>, called |-> FALSE, strict |-> FALSE,
     paths |-> <<>>, cols |-> <<>>, err |-> NoErr, panic |-> FALSE]

\* The record of a call: r := regs[recv].op(arg, ...), areg the register an
\* argument Series was read from, opt the comparator, function, operation or
\* name passed, ij the ints passed, ret the ints returned; n counts the
\* calls made so far and prev names the call made before this one.
NoCall == [op |-> "", recv |-> 0, dst |-> 0, err |-> ""]
Call(op, recv, dst, arg, areg, opt, ij) ==
    [op |-> op, recv |-> recv, dst |-> dst, arg |-> arg, areg |-> areg,
     opt |-> opt, ij |-> ij, ret |-> <<>>, panic |-> FALSE, n |-> 0, prev |-> NoCall]

\* The call record with its place in the history of the program.
Logged(call) ==
    [call EXCEPT !.n = last.n + 1,
                 !.prev = [op |-> last.op, recv |-> last.recv, dst |-> last.dst,
                           err |-> regs[last.dst].Err]]

\* The arrays no Series variable refers to are dropped.
Collect(h, rg) ==
    [a \in ArrIds |->
        IF (\E r \in Regs : rg[r].elements.arr = a) \/ (iter.live /\ iter.s.elements.arr = a)
        THEN h[a] ELSE <<>>]

\* An array no variable other than dst refers to.
FreeArr(dst) ==
    CHOOSE a \in ArrIds :
        /\ \A r \in Regs \ {dst} : regs[r].elements.arr # a
        /\ \A b \in ArrIds :
              (\A r \in Regs \ {dst} : regs[r].elements.arr # b) => a <= b

\* The state after a call that gave res: the result is assigned to dst, a
\* new array is allocated for it if it has one; a panic ends the program.
Commit(res, call) ==
    IF res.panic
    THEN /\ last' = [Logged(call) EXCEPT !.panic = TRUE]
         /\ UNCHANGED <<regs, heap, build, iter, walk, frame>>
    ELSE LET fresh == res.s.elements.arr = 0 - 1
             id == FreeArr(call.dst)
             s == IF fresh THEN [res.s EXCEPT !.elements.arr = id] ELSE res.s
             h == IF fresh THEN [res.heap EXCEPT ![id] = res.cells] ELSE res.heap
             rg == [regs EXCEPT ![call.dst] = s]
         IN  /\ regs' = rg
             /\ heap' = Collect(h, rg)
             /\ last' = [Logged(call) EXCEPT !.ret = res.ret]
             /\ UNCHANGED <<build, iter, walk, frame>>

Running == ~last.panic

\* The arguments the client draws from: small ints, floats, strings, bools.
IntVals == {0, 1}
FloatVals == {F(One), NaN}
StringVals == {S(1), S(2)}
BoolVals == {B(TRUE), B(FALSE)}

\* The native values of the Go type that a Series type stores.
NativeOf(t) ==
    CASE t = "int" -> {I(n) : n \in IntVals}
      [] t = "float" -> FloatVals
      [] t = "string" -> StringVals
      [] OTHER -> BoolVals

GoType(t) ==
    CASE t = "int" -> "int" [] t = "float" -> "float64"
      [] t = "string" -> "string" [] OTHER -> "bool"

\* The sequences over V of length at most n.
SeqsUpTo(V, n) == UNION {[1..k -> V] : k \in 0..n}

\* The slices []T the client builds for a Series of type t.
ListsOf(t, n) == {ArgList(GoType(t), xs) : xs \in SeqsUpTo(NativeOf(t), n)}

\* The state after regs[r] := New(values[r], types[r], name) for each r.
InitRegs(values, types) ==
    /\ regs = [r \in Regs |->
                  MkSeries("x", types[r], r, Len(values[r].items), "")]
    /\ heap = [r \in ArrIds |-> NewCells(build, <<>>, values[r], types[r])]
    /\ last = Call("init", 1, 1, ArgNil, 0, "", <<>>)
InitWith(values, types) ==
    /\ build \in Builds
    /\ InitRegs(values, types)
    /\ iter = NoIter
    /\ walk = NoWalk
    /\ frame = NoFrame

\* ---------------------------------------------------------------- actions

\* regs[dst] = New(values, t, name)
NewAction(dst, values, t, name) ==
    /\ Running
    /\ Commit(New(build, heap, values, t, name),
              Call("New", dst, dst, values, 0, t, <<>>))

\* regs[r].Append(values)
AppendAction(r, values, areg) ==
    /\ Running
    /\ Commit(SeriesAppend(build, heap, regs[r], values),
              Call("Append", r, r, values, areg, "", <<>>))

\* regs[dst] = regs[r].Concat(regs[x])
ConcatAction(dst, r, x) ==
    /\ Running
    /\ Commit(Concat(build, heap, regs[r], regs[x]),
              Call("Concat", r, dst, ArgSeries(regs[x]), x, "", <<>>))

\* regs[dst] = regs[r].Subset(indexes)
SubsetAction(dst, r, indexes, areg) ==
    /\ Running
    /\ Commit(Subset(heap, regs[r], indexes),
              Call("Subset", r, dst, indexes, areg, "", <<>>))

\* regs[dst] = regs[r].Set(indexes, regs[nv])
SetAction(dst, r, indexes, nv) ==
    /\ Running
    /\ Commit(Set(build, heap, regs[r], indexes, regs[nv]),
              Call("Set", r, dst, indexes, nv, "", <<>>))

\* regs[dst] = regs[r].Slice(j, k)
SliceAction(dst, r, j, k) ==
    /\ Running
    /\ Commit(Slice(build, heap, regs[r], j, k),
              Call("Slice", r, dst, ArgNil, 0, "", <<j, k>>))

\* regs[dst] = regs[r].Compare(comparator, comparando)
CompareAction(dst, r, comparator, comparando, areg) ==
    /\ Running
    /\ Commit(Compare(build, heap, regs[r], comparator, comparando),
              Call("Compare", r, dst, comparando, areg, comparator, <<>>))

\* regs[dst] = regs[r].Copy()
CopyAction(dst, r) ==
    /\ Running
    /\ Commit(Copy(heap, regs[r]), Call("Copy", r, dst, ArgNil, 0, "", <<>>))

\* regs[dst] = regs[r].Map(f)
MapAction(dst, r, f) ==
    /\ Running
    /\ Commit(Map(build, heap, regs[r], f), Call("Map", r, dst, ArgFunc(f), 0, f, <<>>))

\* regs[dst] = regs[r].Add(value, name), and Sub, Mul, Div
AddAction(dst, r, value, areg, name) ==
    /\ Running
    /\ Commit(arithmeticOperation(build, heap, regs[r], value, "add", name),
              Call("Add", r, dst, value, areg, name, <<>>))

SubAction(dst, r, value, areg, name) ==
    /\ Running
    /\ Commit(arithmeticOperation(build, heap, regs[r], value, "sub", name),
              Call("Sub", r, dst, value, areg, name, <<>>))

MulAction(dst, r, value, areg, name) ==
    /\ Running
    /\ Commit(arithmeticOperation(build, heap, regs[r], value, "mul", name),
              Call("Mul", r, dst, value, areg, name, <<>>))

DivAction(dst, r, value, areg, name) ==
    /\ Running
    /\ Commit(arithmeticOperation(build, heap, regs[r], value, "div", name),
              Call("Div", r, dst, value, areg, name, <<>>))

\* regs[r].Elem(i).Set(x): a write through the element pointer; Elem panics
\* on an index outside the slice.
ElemSetAction(r, i, x) ==
    /\ Running
    /\ LET s == regs[r]
           call == Call("ElemSet", r, r, ArgScalar(x), 0, "", <<i>>)
       IN  IF IsNilElements(s) \/ i < 0 \/ i >= SeriesLen(s)
           THEN Commit(Panicked(heap), call)
           ELSE Commit(Ret(s, <<>>,
                           [heap EXCEPT ![s.elements.arr][i + 1] = ElemSet(build, s.t, x)]),
                       call)

\* regs[r].Order(reverse)
OrderAction(r, reverse) ==
    /\ Running
    /\ IF IsNilElements(regs[r])
       THEN Commit(Panicked(heap), Call("Order", r, r, ArgNil, 0, "", <<>>))
       ELSE Commit([Ret(regs[r], <<>>, heap) EXCEPT !.ret = Order(heap, regs[r], reverse)],
                   Call("Order", r, r, ArgNil, 0, IF reverse THEN "reverse" ELSE "", <<>>))

\* ------------------------------------------------- specification: ordering

\* Longest Series that is ordered.
OrderLen == 3

OrderFloats == {F(One), F(2 * One), NaN}

\* One Series in register 1: ints or floats, some of them equal, some NaN.
InitOrder ==
    \E t \in {"int", "float"} :
        \E xs \in SeqsUpTo(IF t = "int" THEN {I(n) : n \in IntVals} ELSE OrderFloats,
                           OrderLen) :
            InitWith(<<ArgList(GoType(t), xs), ArgList("int", <<>>)>>, <<t, "int">>)

NextOrder == last.op = "init" /\ \E reverse \in BOOLEAN : OrderAction(1, reverse)

SpecOrder == InitOrder /\ [][NextOrder]_vars

\* What Order has returned, against the elements of its receiver.
OrderPost ==
    LET es == Elems(heap, regs[last.recv])
        n == Len(es)
        ret == last.ret
        m == Cardinality({i \in 1..n : ~IsNA(es[i])})
        at(k) == es[ret[k] + 1]
    IN  /\ Len(ret) = n
        /\ {ret[k] : k \in 1..n} = 0..(n - 1)
        /\ \A k \in 1..n : IsNA(at(k)) <=> k > m
        /\ \A a, b \in (m + 1)..n : a < b => ret[a] < ret[b]
        /\ \A a, b \in 1..m :
              a < b =>
                 /\ IF last.opt = "reverse"
                    THEN ~ElemLess(at(a), at(b))
                    ELSE ~ElemLess(at(b), at(a))
                 /\ (~ElemLess(at(a), at(b)) /\ ~ElemLess(at(b), at(a)))
                       => ret[a] < ret[b]

\* C10: Order(reverse) returns a permutation of 0..Len-1: the elements that
\* are not NA first, ascending by Less (descending when reverse), equal ones
\* in their original order, then the NA elements in increasing index order;
\* the Series is not modified.
C10_OrderStable ==
    [][last'.op = "Order" => (OrderPost' /\ regs' = regs /\ heap' = heap)]_vars

\* An Order(true) over equal elements and a NaN before the last of them.
C10_Witness ==
    /\ last.op = "Order" /\ last.opt = "reverse"
    /\ LET es == Elems(heap, regs[1])
       IN  /\ Len(es) = 3
           /\ IsNA(es[2])
           /\ ElemEq(es[1], es[3])
    /\ last.ret = <<0, 2, 1>>

\* ------------------------------------------------ specification: comparing

SixComparators == {"==", "!=", ">", ">=", "<", "<="}

\* What a client compares a Series of type t with: nil, one value, a slice
\* of up to MaxLen + 1 values, the Series of register 2, a predicate.
Comparandos(t) ==
    {ArgNil, ArgSeries(regs[2])}
        \cup {ArgScalar(x) : x \in NativeOf(t)}
        \cup ListsOf(t, MaxLen + 1)
        \cup {ArgFunc(f) : f \in CompFuncs}

\* Register 1 holds a Series of any type, register 2 one of the same type.
InitCompare ==
    \E t \in Types :
        \E v1 \in ListsOf(t, MaxLen), v2 \in ListsOf(t, 1) :
            InitWith(<<v1, v2>>, <<t, t>>)

\* One comparison of register 1, the result going to register 2.
NextCompare ==
    /\ last.op = "init"
    /\ \E c \in Comparators \cup {"~"} :
          \E x \in Comparandos(regs[1].t) :
              CompareAction(2, 1, c, x, IF x.kind = "series" THEN 2 ELSE 0)

SpecCompare == InitCompare /\ [][NextCompare]_vars

\* The length of the comparando of the call made last, once coerced by New.
CoercedLen(arg) ==
    CASE arg.kind = "list" -> Len(arg.items)
      [] arg.kind = "series" -> SeriesLen(arg.s)
      [] OTHER -> 1

\* C4: Compare with one of the six comparators and a comparando whose coerced
\* length is neither 1 nor the receiver's length returns an empty Series of
\* type Bool carrying an error, whatever the type of the receiver.
C4_MismatchIsEmptyBool ==
    (/\ last.op = "Compare" /\ ~last.panic
     /\ last.opt \in SixComparators
     /\ CoercedLen(last.arg) \notin {1, SeriesLen(regs[last.recv])})
        => /\ SeriesLen(regs[last.dst]) = 0
           /\ regs[last.dst].t = "bool"
           /\ regs[last.dst].Err # ""

\* C5: Compare(In, c) on an error-free Series gives an error-free Bool Series
\* of the same length whose element i tells whether s[i] is Eq to some
\* element of c coerced to the type of s, for every length of c; s is left
\* unchanged.
C5_InIsMembership ==
    [][(last'.op = "Compare" /\ last'.opt = "in" /\ regs[last'.recv].Err = "")
          => LET s == regs[last'.recv]
                 es == Elems(heap, s)
                 comp == NewCells(build, heap, last'.arg, s.t)
                 res == regs'[last'.dst]
                 out == Elems(heap', res)
             IN  /\ ~last'.panic
                 /\ res.Err = "" /\ res.t = "bool"
                 /\ Len(out) = Len(es)
                 /\ \A i \in 1..Len(es) :
                       /\ ~out[i].nan
                       /\ (out[i].v = 1) <=>
                             \E j \in 1..Len(comp) : ElemEq(es[i], comp[j])
                 /\ regs'[last'.recv] = s
                 /\ Elems(heap', s) = es]_vars

\* An In comparison with a comparando longer than the receiver in which an
\* element matches the last element of the comparando only.
C5_Witness ==
    /\ last.op = "Compare" /\ last.opt = "in" /\ ~last.panic
    /\ last.arg.kind = "list"
    /\ Len(last.arg.items) = MaxLen + 1
    /\ SeriesLen(regs[1]) = MaxLen
    /\ regs[1].t = "int"
    /\ Elems(heap, regs[1])[1].v # last.arg.items[1].v
    /\ Elems(heap, regs[1])[1].v # last.arg.items[2].v
    /\ Elems(heap, regs[2])[1].v = 1

\* ----------------------------------------------- specification: arithmetic

ArithNames == {"Add", "Sub", "Mul", "Div"}

\* The Series the client computes with: ints that float64 holds exactly and
\* ints that it does not, floats and NaN, and a String Series.
ArithReceivers ==
    {[t |-> "int", v |-> ArgList("int", xs)] :
        xs \in SeqsUpTo({I(0 - 3), I(BigOdd), I(MaxInt)}, MaxLen)}
    \cup {[t |-> "float", v |-> ArgList("float64", xs)] :
            xs \in SeqsUpTo({F(3), NaN}, MaxLen)}
    \cup {[t |-> "string", v |-> ArgList("string", <<S(1)>>)]}

ArithOthers ==
    {[t |-> "int", v |-> ArgList("int", xs)] : xs \in SeqsUpTo({I(0), I(2)}, MaxLen)}
    \cup {[t |-> "float", v |-> ArgList("float64", xs)] : xs \in SeqsUpTo({F(3)}, MaxLen)}
    \cup {[t |-> "string", v |-> ArgList("string", <<S(1)>>)],
          [t |-> "bool", v |-> ArgList("bool", <<B(TRUE)>>)]}

\* The scalar operands: every kind of number, zero, NaN, and two values
\* that are no numbers.
ArithScalars ==
    {I(0), I(1), I(2), I(MaxInt), K("int64", 1), K("uint8", 2),
     K("float32", One), K("float32", 0), F(0), F(One), F(3), NaN, S(1), Nil}

InitArith ==
    \E a \in ArithReceivers, b \in ArithOthers : InitWith(<<a.v, b.v>>, <<a.t, b.t>>)

\* The argument a scalar operand makes.
ScalarArg(x) == IF x.k = "nil" THEN ArgNil ELSE ArgScalar(x)

\* One call of Add, Sub, Mul or Div on register 1, the result going to
\* register 2.
ArithAdd ==
    /\ last.op = "init"
    /\ \/ \E x \in ArithScalars : AddAction(2, 1, ScalarArg(x), 0, "")
       \/ \E name \in {"", "r"} : AddAction(2, 1, ArgSeries(regs[2]), 2, name)
ArithSub ==
    /\ last.op = "init"
    /\ \/ \E x \in ArithScalars : SubAction(2, 1, ScalarArg(x), 0, "")
       \/ \E name \in {"", "r"} : SubAction(2, 1, ArgSeries(regs[2]), 2, name)
ArithMul ==
    /\ last.op = "init"
    /\ \/ \E x \in ArithScalars : MulAction(2, 1, ScalarArg(x), 0, "")
       \/ \E name \in {"", "r"} : MulAction(2, 1, ArgSeries(regs[2]), 2, name)
ArithDiv ==
    /\ last.op = "init"
    /\ \/ \E x \in ArithScalars : DivAction(2, 1, ScalarArg(x), 0, "")
       \/ \E name \in {"", "r"} : DivAction(2, 1, ArgSeries(regs[2]), 2, name)

NextArith == ArithAdd \/ ArithSub \/ ArithMul \/ ArithDiv

SpecArith == InitArith /\ [][NextArith]_vars

\* The operand of the call made last is a number of some integer or float
\* kind, and it is zero.
ScalarOperand(call) ==
    /\ call.arg.kind = "scalar"
    /\ call.arg.items[1].k \in IntKinds \cup UintKinds \cup FloatKinds
ZeroScalar(call) ==
    /\ ScalarOperand(call)
    /\ call.arg.items[1].c = "fin" /\ call.arg.items[1].v = 0
\* The Series holds the number 0 at some position.
HoldsZero(h, s) ==
    /\ s.t \in {"int", "float"}
    /\ \E i \in 1..SeriesLen(s) : ~Elems(h, s)[i].nan /\ Elems(h, s)[i].v = 0

\* The exact integer a op b, the quotient truncated toward zero.
ExactInt(op, a, b) ==
    CASE op = "Add" -> a + b
      [] op = "Sub" -> a - b
      [] op = "Mul" -> a * b
      [] OTHER -> Sgn(a) * Sgn(b) * (Abs(a) \div Abs(b))

\* C6: Add, Sub, Mul and Div with a scalar of any integer or float kind on an
\* error-free Int or Float Series (no zero divisor) give an error-free
\* Series of the receiver's length, of type Int for an Int receiver and
\* Float for a Float receiver.
C6_ScalarKeepsType ==
    (/\ last.op \in ArithNames
     /\ ScalarOperand(last)
     /\ regs[last.recv].t \in {"int", "float"}
     /\ ~(last.op = "Div" /\ ZeroScalar(last)))
        => /\ ~last.panic
           /\ regs[last.dst].Err = ""
           /\ SeriesLen(regs[last.dst]) = SeriesLen(regs[last.recv])
           /\ regs[last.dst].t = regs[last.recv].t

\* C7: Add, Sub, Mul and Div between two error-free Series of equal length
\* and of types Int or Float (no zero divisor) give an error-free Series of
\* that length whose element i is s[i] op other[i] (for an Int result the
\* quotient truncated toward zero), of type Int only if both are Int, and
\* leave both operands unchanged; a String or Bool operand gives an error.
C7_SeriesElementwise ==
    [][(last'.op \in ArithNames /\ last'.arg.kind = "series")
          => LET s == regs[last'.recv]
                 other == regs[last'.areg]
                 es == Elems(heap, s)
                 os == Elems(heap, other)
                 res == regs'[last'.dst]
                 out == Elems(heap', res)
                 bothInt == s.t = "int" /\ other.t = "int"
             IN  /\ (/\ s.t \in {"int", "float"} /\ other.t \in {"int", "float"}
                     /\ Len(es) = Len(os)
                     /\ ~(last'.op = "Div" /\ HoldsZero(heap, other)))
                       => /\ ~last'.panic
                          /\ res.Err = ""
                          /\ Len(out) = Len(es)
                          /\ res.t = (IF bothInt THEN "int" ELSE "float")
                          /\ bothInt =>
                                \A i \in 1..Len(es) :
                                    /\ ~out[i].nan
                                    /\ out[i].v = ExactInt(last'.op, es[i].v, os[i].v)
                          /\ regs'[last'.recv] = s
                          /\ Elems(heap', s) = es
                 /\ (s.t \in {"string", "bool"} \/ other.t \in {"string", "bool"})
                       => ~last'.panic /\ res.Err # ""]_vars

\* The data errors of C8: a Series operand of another length, or a zero
\* divisor of Div.
LengthsDiffer(call, h, rg) ==
    call.arg.kind = "series" /\ SeriesLen(rg[call.areg]) # SeriesLen(rg[call.recv])
ZeroDivisor(call, h, rg) ==
    /\ call.op = "Div"
    /\ \/ ZeroScalar(call)
       \/ call.arg.kind = "series" /\ HoldsZero(h, rg[call.areg])
ZeroDivisorReached(call, h, rg) ==
    /\ call.op = "Div"
    /\ \/ ZeroScalar(call) /\ SeriesLen(rg[call.recv]) > 0
       \/ call.arg.kind = "series" /\ HoldsZero(h, rg[call.areg])
\* The call returned the receiver with an error set.
ReturnsPoisonedReceiver(call, h, rg, h2, rg2) ==
    /\ ~call.panic
    /\ rg2[call.dst].Err # ""
    /\ rg2[call.dst].t = rg[call.recv].t
    /\ Elems(h2, rg2[call.dst]) = Elems(h, rg[call.recv])

C9_IntWraps ==
    (/\ last.op \in {"Add", "Sub", "Mul"}
     /\ last.arg.kind = "scalar"
     /\ last.arg.items[1].k \in IntKinds \cup UintKinds
     /\ regs[last.recv].t = "int")
        => /\ ~last.panic
           /\ regs[last.dst].Err = ""
           /\ SeriesLen(regs[last.dst]) = SeriesLen(regs[last.recv])
           /\ \A i \in 1..SeriesLen(regs[last.recv]) :
                 Elems(heap, regs[last.dst])[i].v =
                     WrapInt(ExactInt(last.op, Elems(heap, regs[last.recv])[i].v,
                                      last.arg.items[1].v))

\* ------------------------------------------- specification: chains of calls

\* Longest chain of calls the client makes.
MaxCalls == 2

\* The client starts with two Int Series.
Init ==
    \E a \in ListsOf("int", MaxLen), b \in ListsOf("int", 1) :
        InitWith(<<a, b>>, <<"int", "int">>)

\* The indexes passed to Subset and Set: an int inside a Series of MaxLen
\* elements and one outside every Series, an []int, a []bool, and the
\* other Series.
ChainIndexes(o) ==
    {[ix |-> ArgScalar(I(0)), areg |-> 0],
     [ix |-> ArgScalar(I(MaxLen)), areg |-> 0],
     [ix |-> ArgList("int", <<I(0), I(MaxLen)>>), areg |-> 0],
     [ix |-> ArgList("bool", <<B(TRUE)>>), areg |-> 0],
     [ix |-> ArgSeries(regs[o]), areg |-> o]}

\* A comparando longer than every Series.
LongList == ArgList("int", [i \in 1..(MaxLen + MaxCalls + 1) |-> I(0)])

\* The client makes another call.
CanCall == last.n < MaxCalls

ChainConcat == CanCall /\ \E r \in Regs : ConcatAction(3 - r, r, 3 - r)
ChainSubset ==
    CanCall /\ \E r \in Regs : \E c \in ChainIndexes(3 - r) : SubsetAction(3 - r, r, c.ix, c.areg)
ChainSet ==
    CanCall /\ \E r \in Regs : \E c \in ChainIndexes(3 - r) : SetAction(r, r, c.ix, 3 - r)
ChainSlice ==
    CanCall /\ \E r \in Regs : \E jk \in {<<0, 1>>, <<1, 0>>} : SliceAction(3 - r, r, jk[1], jk[2])
ChainCompare ==
    CanCall /\ \E r \in Regs : \E c \in {ArgScalar(I(1)), LongList} :
        CompareAction(3 - r, r, "==", c, 0)
ChainCopy == CanCall /\ \E r \in Regs : CopyAction(3 - r, r)
ChainMap == CanCall /\ \E r \in Regs : \E f \in MapFuncs : MapAction(3 - r, r, f)
ChainAdd ==
    CanCall /\ \E r \in Regs :
        \/ AddAction(3 - r, r, ArgScalar(I(1)), 0, "x")
        \/ AddAction(3 - r, r, ArgSeries(regs[3 - r]), 3 - r, "x")
ChainSub == CanCall /\ \E r \in Regs : SubAction(3 - r, r, ArgScalar(I(1)), 0, "x")
ChainMul == CanCall /\ \E r \in Regs : MulAction(3 - r, r, ArgScalar(I(1)), 0, "x")
ChainDiv == CanCall /\ \E r \in Regs : \E k \in {0, 1} : DivAction(3 - r, r, ArgScalar(I(k)), 0, "x")
ChainAppend == CanCall /\ \E r \in Regs : AppendAction(r, ArgScalar(I(1)), 0)
ChainElemSet == CanCall /\ \E r \in Regs : \E x \in {I(0), I(1)} : ElemSetAction(r, 0, x)

Next ==
    \/ ChainConcat \/ ChainSubset \/ ChainSet \/ ChainSlice \/ ChainCompare
    \/ ChainCopy \/ ChainMap \/ ChainAdd \/ ChainSub \/ ChainMul \/ ChainDiv
    \/ ChainAppend \/ ChainElemSet

Spec == Init /\ [][Next]_vars

\* The operations of the public interface that return a Series, and those
\* of them that transform.
SeriesOps ==
    {"Concat", "Subset", "Set", "Slice", "Compare", "Copy", "Map",
     "Add", "Sub", "Mul", "Div"}
Transforms == {"Subset", "Copy", "Map", "Add", "Sub", "Mul", "Div"}

\* C1: every Series-returning operation on a receiver whose error is set
\* returns a Series carrying that same error, whatever the arguments, and
\* Append on such a receiver leaves its length and elements unchanged.
C1_ErrorShortCircuits ==
    [][/\ (last'.op \in SeriesOps /\ regs[last'.recv].Err # "")
            => ~last'.panic /\ regs'[last'.dst].Err = regs[last'.recv].Err
       /\ (last'.op = "Append" /\ regs[last'.recv].Err # "")
            => /\ ~last'.panic
               /\ Elems(heap', regs'[last'.recv]) = Elems(heap, regs[last'.recv])]_vars

\* The call made last wrote, without a panic, an element of the receiver or
\* of the result of the transforming call made before it, which had put its
\* result in a variable of its own.
ModifiesAfterTransform(call) ==
    /\ call.op \in {"Set", "ElemSet"} /\ ~call.panic
    /\ call.prev.op \in Transforms
    /\ call.prev.dst # call.prev.recv
    /\ call.recv \in {call.prev.recv, call.prev.dst}
\* The Series of the pair (receiver, result) that the call did not write to.
Untouched(call) ==
    IF call.recv = call.prev.recv THEN call.prev.dst ELSE call.prev.recv

\* C2 as stated: after Subset, Copy, Map, Add, Sub, Mul or Div, whatever the
\* outcome, a write to an element of the result (by Set or by Elem(i).Set)
\* leaves the elements of the receiver unchanged, and a write to the
\* receiver leaves the result unchanged.
C2_TransformsShareNothing ==
    [][ModifiesAfterTransform(last')
          => Elems(heap', regs'[Untouched(last')]) = Elems(heap, regs[Untouched(last')])]_vars

\* C2 amended: the same for Copy and Map whatever the outcome, and for
\* Subset, Add, Sub, Mul and Div when the Series they returned carries no
\* error (with an error they return the receiver itself).
C2_SuccessfulTransformsShareNothing ==
    [][(ModifiesAfterTransform(last')
        /\ (last'.prev.op \in {"Copy", "Map"} \/ last'.prev.err = ""))
          => Elems(heap', regs'[Untouched(last')]) = Elems(heap, regs[Untouched(last')])]_vars

\* A Series was copied and element 0 of the copy was then written: the two
\* Series now differ in that element.
C2_Witness ==
    /\ last.op = "ElemSet" /\ ~last.panic
    /\ last.prev.op = "Copy" /\ last.prev.recv = 1 /\ last.prev.dst = 2
    /\ last.recv = 2
    /\ SeriesLen(regs[1]) = MaxLen /\ SeriesLen(regs[2]) = MaxLen
    /\ Elems(heap, regs[1])[1] # Elems(heap, regs[2])[1]

\* The ints an index argument of kind int, []int or Int Series holds.
IndexInts(h, arg) ==
    CASE arg.kind = "scalar" /\ arg.items[1].k = "int" -> {arg.items[1].v}
      [] arg.kind = "list" /\ arg.lk = "int" ->
            {arg.items[i].v : i \in 1..Len(arg.items)}
      [] arg.kind = "series" /\ arg.s.t = "int" ->
            {Elems(h, arg.s)[i].v : i \in 1..SeriesLen(arg.s)}
      [] OTHER -> {}

\* C3: an index outside [0, Len) passed to Subset or Set is a recoverable
\* error: the call returns a Series with an error attached and does not
\* panic.
C3_IndexOutOfRangeRecoverable ==
    [][(/\ last'.op \in {"Subset", "Set"}
        /\ \E i \in IndexInts(heap, last'.arg) :
              i < 0 \/ i >= SeriesLen(regs[last'.recv]))
          => ~last'.panic /\ regs'[last'.dst].Err # ""]_vars

\* -------------------------------------------------- specification: Subset

\* The indexes the client passes: ints and []int over the positions of the
\* longest Series, []bool of every length up to one more than the longest
\* Series, and the Series in register 2.
SubsetIndexes ==
    {ArgScalar(I(n)) : n \in 0..(MaxLen - 1)}
    \cup {ArgList("int", xs) : xs \in SeqsUpTo({I(n) : n \in 0..(MaxLen - 1)}, MaxLen)}
    \cup {ArgList("bool", xs) : xs \in SeqsUpTo(BoolVals, MaxLen + 1)}

InitSubset ==
    \E t \in Types, u \in {"int", "bool"} :
        \E a \in ListsOf(t, MaxLen), b \in ListsOf(u, MaxLen) :
            InitWith(<<a, b>>, <<t, u>>)

SubsetByValue ==
    last.op = "init" /\ \E ix \in SubsetIndexes : SubsetAction(2, 1, ix, 0)
SubsetBySeries ==
    last.op = "init" /\ SubsetAction(2, 1, ArgSeries(regs[2]), 2)

NextSubset == SubsetByValue \/ SubsetBySeries

SpecSubset == InitSubset /\ [][NextSubset]_vars

\* The ints of an index argument of kind int, []int or Int Series, as a
\* sequence; the bools of a []bool or Bool Series.
IndexSeq(h, arg) ==
    CASE arg.kind = "scalar" -> <<arg.items[1].v>>
      [] arg.kind = "list" -> [i \in 1..Len(arg.items) |-> arg.items[i].v]
      [] OTHER -> [i \in 1..SeriesLen(arg.s) |-> Elems(h, arg.s)[i].v]
IsIntIndex(arg) ==
    \/ arg.kind = "scalar" /\ arg.items[1].k = "int"
    \/ arg.kind = "list" /\ arg.lk = "int"
    \/ arg.kind = "series" /\ arg.s.t = "int" /\ arg.s.Err = ""
IsMask(arg) ==
    \/ arg.kind = "list" /\ arg.lk = "bool"
    \/ arg.kind = "series" /\ arg.s.t = "bool" /\ arg.s.Err = ""
\* The position (1-based) of the k-th true of a mask.
KthTrue(mask, k) ==
    CHOOSE i \in 1..Len(mask) :
        mask[i] = 1 /\ Cardinality({j \in 1..i : mask[j] = 1}) = k

\* C11: on an error-free Series, Subset with ints all inside [0, Len) gives
\* an error-free Series of the same name and type whose k-th element is
\* s[idx[k]]; a mask of length Len selects the positions holding true in
\* increasing order; a mask of another length gives a Series with an error.
C11_SubsetSelects ==
    [][(last'.op = "Subset" /\ regs[last'.recv].Err = "")
          => LET s == regs[last'.recv]
                 es == Elems(heap, s)
                 q == IndexSeq(heap, last'.arg)
                 res == regs'[last'.dst]
                 out == Elems(heap', res)
                 fine == /\ ~last'.panic /\ res.Err = ""
                         /\ res.Name = s.Name /\ res.t = s.t
             IN  /\ (IsIntIndex(last'.arg)
                     /\ \A k \in 1..Len(q) : q[k] >= 0 /\ q[k] < Len(es))
                       => /\ fine
                          /\ Len(out) = Len(q)
                          /\ \A k \in 1..Len(q) : out[k] = es[q[k] + 1]
                 /\ (IsMask(last'.arg) /\ Len(q) = Len(es))
                       => /\ fine
                          /\ Len(out) = Cardinality({j \in 1..Len(q) : q[j] = 1})
                          /\ \A k \in 1..Len(out) : out[k] = es[KthTrue(q, k)]
                 /\ (IsMask(last'.arg) /\ Len(q) # Len(es))
                       => ~last'.panic /\ res.Err # ""]_vars

\* Subset([]int{1, 0}) of a Series of two different elements gave them in
\* the opposite order.
C11_Witness ==
    /\ last.op = "Subset" /\ ~last.panic
    /\ last.arg.kind = "list" /\ last.arg.items = <<I(1), I(0)>>
    /\ SeriesLen(regs[1]) = 2 /\ regs[2].Err = ""
    /\ Elems(heap, regs[1])[1] # Elems(heap, regs[1])[2]
    /\ Elems(heap, regs[2]) = <<Elems(heap, regs[1])[2], Elems(heap, regs[1])[1]>>

\* ------------------------------------------------ specification: iterators

\* Series.ValuesIterator(opts...): the closure before its first call.
ValuesIterator(s, step, reverse, skipNaN, onlyUnique) ==
    [live |-> TRUE, s |-> s, asked |-> step,
     Step |-> IF step = 0 THEN 1 ELSE step,
     Reverse |-> reverse, SkipNaN |-> skipNaN, OnlyUnique |-> onlyUnique,
     index |-> IF reverse THEN SeriesLen(s) - 1 ELSE 0,
     seen |-> {}, out |-> Done, calls |-> 0]

\* The index after one step of the closure.
IterAdvance(it) ==
    IF it.Reverse THEN WrapInt(it.index - it.Step) ELSE WrapInt(it.index + it.Step)
IterExhausted(it) ==
    IF it.Reverse THEN it.index < 0 ELSE it.index >= SeriesLen(it.s)

RECURSIVE IterRunRestarting(_, _)
IterRunRestarting(h, it) ==
    IF IterExhausted(it)
    THEN [it |-> [it EXCEPT !.out = Done,
                            !.index = IF it.Reverse THEN SeriesLen(it.s) - 1 ELSE 0],
          panic |-> FALSE]
    ELSE IF it.index < 0 \/ it.index >= SeriesLen(it.s)
    THEN [it |-> it, panic |-> TRUE]
    ELSE IF it.SkipNaN /\ IsNA(Elems(h, it.s)[it.index + 1])
    THEN IterRunRestarting(h, [it EXCEPT !.index = IterAdvance(it)])
    ELSE IF it.OnlyUnique /\ ElemVal(Elems(h, it.s)[it.index + 1]) \in it.seen
    THEN IterRunRestarting(h, [it EXCEPT !.index = IterAdvance(it)])
    ELSE [it |-> [it EXCEPT
                    !.index = IterAdvance(it),
                    !.seen = IF it.OnlyUnique
                             THEN it.seen \cup {ElemVal(Elems(h, it.s)[it.index + 1])}
                             ELSE it.seen,
                    !.out = Yield(it.index, ElemVal(Elems(h, it.s)[it.index + 1]))],
          panic |-> FALSE]

\* One call of the closure: the loop runs until it returns; s.Val panics on
\* an index outside the Series.
RECURSIVE IterRun(_, _)
IterRun(h, it) ==
    IF IterExhausted(it)
    THEN [it |-> [it EXCEPT !.out = Done], panic |-> FALSE]
    ELSE IF it.index < 0 \/ it.index >= SeriesLen(it.s)
    THEN [it |-> it, panic |-> TRUE]
    ELSE IF it.SkipNaN /\ IsNA(Elems(h, it.s)[it.index + 1])
    THEN IterRun(h, [it EXCEPT !.index = IterAdvance(it)])
    ELSE IF it.OnlyUnique /\ ElemVal(Elems(h, it.s)[it.index + 1]) \in it.seen
    THEN IterRun(h, [it EXCEPT !.index = IterAdvance(it)])
    ELSE [it |-> [it EXCEPT
                    !.index = IterAdvance(it),
                    !.seen = IF it.OnlyUnique
                             THEN it.seen \cup {ElemVal(Elems(h, it.s)[it.index + 1])}
                             ELSE it.seen,
                    !.out = Yield(it.index, ElemVal(Elems(h, it.s)[it.index + 1]))],
          panic |-> FALSE]

\* The steps the client asks for.
IterSteps == {0 - 1, 0, 1, 2, MaxInt}

\* iter = regs[r].ValuesIterator(WithStep(step), WithReverse(reverse), ...)
ValuesIteratorAction(r, step, reverse, skipNaN, onlyUnique) ==
    /\ Running
    /\ iter' = ValuesIterator(regs[r], step, reverse, skipNaN, onlyUnique)
    /\ last' = Logged(Call("ValuesIterator", r, r, ArgNil, 0, "", <<step>>))
    /\ UNCHANGED <<regs, heap, build, walk, frame>>

\* iter(): the client calls the closure, at most twice after its end.
IterNextAction ==
    /\ Running /\ iter.live /\ iter.calls < SeriesLen(iter.s) + 2
    /\ iter' = [IterRun(heap, iter).it EXCEPT !.calls = iter.calls + 1]
    /\ last' = [Logged(Call("IterNext", last.recv, last.recv, ArgNil, 0, "", <<>>))
                   EXCEPT !.panic = IterRun(heap, iter).panic]
    /\ UNCHANGED <<regs, heap, build, walk, frame>>

InitIter ==
    \E t \in {"int", "float"} :
        \E a \in ListsOf(t, MaxLen) : InitWith(<<a, ArgList("int", <<>>)>>, <<t, "int">>)

IterCreate ==
    last.op = "init" /\ \E step \in IterSteps, reverse \in BOOLEAN, skipNaN \in BOOLEAN, onlyUnique \in BOOLEAN :
        ValuesIteratorAction(1, step, reverse, skipNaN, onlyUnique)

NextIter == IterCreate \/ IterNextAction

SpecIter == InitIter /\ [][NextIter]_vars

\* C12: with a step k >= 1 (0 counting as 1) and no filter, call number n
\* (from 0) of a ValuesIterator yields (i, s[i]) for i = n*k when forward and
\* i = Len-1-n*k when reverse as long as i is inside the Series, and the done
\* signal (-1, nil, false) at every call after that.
C12_IteratorSequence ==
    (iter.live /\ iter.calls >= 1 /\ iter.asked >= 0
     /\ ~iter.SkipNaN /\ ~iter.OnlyUnique)
        => LET k == IF iter.asked = 0 THEN 1 ELSE iter.asked
               n == iter.calls - 1
               i == IF iter.Reverse THEN SeriesLen(iter.s) - 1 - n * k ELSE n * k
           IN  /\ ~last.panic
               /\ iter.out = IF i >= 0 /\ i < SeriesLen(iter.s)
                             THEN Yield(i, ElemVal(Elems(heap, iter.s)[i + 1]))
                             ELSE Done

\* A reverse iterator over a Series of MaxLen elements has yielded them all
\* and has then returned done twice.
C12_Witness ==
    /\ iter.live /\ iter.Reverse /\ iter.asked = 1
    /\ ~iter.SkipNaN /\ ~iter.OnlyUnique
    /\ SeriesLen(iter.s) = MaxLen
    /\ iter.calls = MaxLen + 2
    /\ iter.out = Done

\* ---------------------------------------- specification: NewFromIterator

\* The type NewFromIterator takes from the first value yielded.
FirstType(v) ==
    CASE v.k = "float64" -> "float"
      [] v.k = "string" -> "string"
      [] v.k = "bool" -> "bool"
      [] OTHER -> "string"

\* The argument New and Append get for a yielded value.
YieldArg(v) == IF v = Nil THEN ArgNil ELSE ArgScalar(v)

\* result.Append(v) for the values from position i on, on the array a of
\* the local result, of which len cells are in use.
RECURSIVE AppendYields(_, _, _, _, _, _)
RECURSIVE AppendYieldsNext(_, _, _, _, _)
AppendYields(build_, t, a, len, vals, i) ==
    IF i > Len(vals) THEN [cells |-> a, len |-> len]
    ELSE AppendYieldsNext(build_, t,
             AppendCells(t, a, len, NewCells(build_, <<>>, YieldArg(vals[i]), t)),
             vals, i)
AppendYieldsNext(build_, t, ap, vals, i) ==
    AppendYields(build_, t, ap.cells, ap.len, vals, i + 1)

\* NewFromIterator(it, name) for an iterator that yields vals and then done:
\* New for the first value, Append for the others; with no value the result
\* is the zero Series.
NewFromIteratorBuilt(name, t, r, h) == Fresh(name, t, "", r.cells, r.len, h)
NewFromIterator(build_, h, vals, name) ==
    IF vals = <<>> THEN Ret(NoSeries, <<>>, h)
    ELSE NewFromIteratorBuilt(name, FirstType(vals[1]),
             AppendYields(build_, FirstType(vals[1]),
                 NewCells(build_, <<>>, YieldArg(vals[1]), FirstType(vals[1])),
                 1, vals, 2),
             h)

\* regs[dst] = NewFromIterator(it, name)
NewFromIteratorAction(dst, vals, name) ==
    /\ Running
    /\ Commit(NewFromIterator(build, heap, vals, name),
              Call("NewFromIterator", dst, dst, ArgList("interface", vals), 0, name, <<>>))

\* The values the iterators yield, and the names asked for.
Yielded == {I(1), F(One), NaN, S(1), S(2), B(TRUE), B(FALSE), Nil}
IterNames == {"", "it"}

InitFromIter ==
    \E a \in ListsOf("int", 1) : InitWith(<<a, ArgList("int", <<>>)>>, <<"int", "int">>)

FromIterator ==
    last.op = "init"
    /\ \E vals \in SeqsUpTo(Yielded, MaxLen + 1), name \in IterNames :
           NewFromIteratorAction(2, vals, name)

NextFromIter == FromIterator

SpecFromIter == InitFromIter /\ [][NextFromIter]_vars

\* C13: the Series NewFromIterator returns for an iterator that yields n
\* values has the name asked for and n elements, the yielded values in
\* order as its type stores them, and its type is the one of the first
\* value: Float, String or Bool, and String for any other first value.
C13_FromIteratorBuilds ==
    (last.op = "NewFromIterator")
        => /\ ~last.panic
           /\ regs[last.dst].Name = last.opt
           /\ ~IsNilElements(regs[last.dst])
           /\ SeriesLen(regs[last.dst]) = Len(last.arg.items)
           /\ last.arg.items # <<>> =>
                  /\ regs[last.dst].t = FirstType(last.arg.items[1])
                  /\ \A i \in 1..Len(last.arg.items) :
                        Elems(heap, regs[last.dst])[i]
                            = ElemSet(build, regs[last.dst].t, last.arg.items[i])

\* ------------------------------------------- specification: GetValueByPath

\* The data is a graph of values.  A node is a struct with the field A (priv:
\* the field is unexported), a map[string]T with the key "A", a map[int]T, a
\* slice with one element, a pointer, an interface value, a scalar or a
\* function; next is the node held (field, element, pointee, dynamic value),
\* 0 for none: a struct without A, an empty map or slice, a nil pointer, a
\* nil interface.
NodeIds == {1, 2, 3}
Node(kind, next, priv) == [kind |-> kind, next |-> next, priv |-> priv]

\* The nodes at position i: containers hold the node after them, pointers
\* point anywhere.
NodesAt(i) ==
    {Node(k, nx, FALSE) : k \in {"struct", "map", "slice", "iface"},
                          nx \in {0, i + 1} \cap (NodeIds \cup {0})}
    \cup {Node("struct", nx, TRUE) : nx \in {i + 1} \cap NodeIds}
    \cup {Node("ptr", nx, FALSE) : nx \in NodeIds \cup {0}}
    \cup {Node(k, 0, FALSE) : k \in {"mapint", "scalar", "func"}}

\* An interface value never holds an interface value.
WellTyped(g) ==
    \A i \in NodeIds :
        (g[i].kind = "iface" /\ g[i].next # 0) => g[g[i].next].kind # "iface"

\* The segments of the paths, and the paths; <<>> is the empty path "".
Segments == {"A", "0"}
Paths == SeqsUpTo(Segments, 3)

\* strconv.Atoi(key)
IsNumber(key) == key = "0"
Atoi(key) == 0

\* reflect.ValueOf(data): the dynamic value of data, 0 (invalid) for nil.
ValueOf(g) == IF g[1].kind = "iface" THEN g[1].next ELSE 1

\* v.Interface(): the value held, 0 for a nil interface.
Interface(g, id) == IF g[id].kind = "iface" THEN g[id].next ELSE id

\* visited := make(map[uintptr]bool)
KeptVisited(before) == before
NewVisited(before) == {}

\* The key of an iteration of `for keyIndex, key := range keys`.
WalkKeyBefore(keys, i) == IF i > 1 THEN keys[i - 1] ELSE keys[i]
WalkKey(keys, i) == keys[i]

\* The cursor at the top of an iteration, with the number of dereferences
\* made before it.
Cursor(id, st) == [id |-> id, n |-> Len(st.derefs)]

WalkErr(msg, key, st) ==
    [val |-> 0, err |-> msg, key |-> key, panic |-> FALSE,
     visited |-> st.visited, derefs |-> st.derefs, at |-> st.at]
WalkPanic(st) ==
    [val |-> 0, err |-> "", key |-> "", panic |-> TRUE,
     visited |-> st.visited, derefs |-> st.derefs, at |-> st.at]
WalkOk(val, st) ==
    [val |-> val, err |-> "", key |-> "", panic |-> FALSE,
     visited |-> st.visited, derefs |-> st.derefs, at |-> st.at]

\* After the loop: v.Interface() panics on a value obtained from an
\* unexported field.
WalkEnd(g, id, ro, st) ==
    IF id = 0 THEN WalkErr("invalid value at end of path", "", st)
    ELSE IF ro THEN WalkPanic(st)
    ELSE WalkOk(Interface(g, id), st)

RECURSIVE WalkLoop(_, _, _, _, _, _)
RECURSIVE WalkSwitch(_, _, _, _, _, _)
RECURSIVE WalkElem(_, _, _, _, _, _)
RECURSIVE WalkTop(_, _, _, _, _, _)

\* One iteration of the loop, the cursor being the node id (0: invalid)
\* and ro telling that it was obtained from an unexported field.
WalkLoop(g, keys, i, id, ro, st) ==
    IF i > Len(keys) THEN WalkEnd(g, id, ro, [st EXCEPT !.at = Append(st.at, Cursor(id, st))])
    ELSE WalkTop(g, keys, i, id, ro, [st EXCEPT !.at = Append(st.at, Cursor(id, st))])

\* The validity test and the dereference of a pointer.
WalkTop(g, keys, i, id, ro, st) ==
    IF id = 0
    THEN WalkErr("invalid value encountered at key", WalkKey(keys, i), st)
    ELSE IF g[id].kind # "ptr" THEN WalkSwitch(g, keys, i, id, ro, st)
    ELSE IF g[id].next = 0
    THEN WalkErr("nil pointer encountered at key", WalkKey(keys, i), st)
    ELSE IF g[id].next \in st.visited
    THEN WalkErr("circular reference detected at key", WalkKey(keys, i), st)
    ELSE WalkSwitch(g, keys, i, g[id].next, ro,
                    [st EXCEPT !.visited = st.visited \cup {g[id].next},
                               !.derefs = Append(st.derefs, g[id].next)])

\* switch v.Kind()
WalkSwitch(g, keys, i, id, ro, st) ==
    CASE g[id].kind = "struct" ->
            IF keys[i] # "A" \/ g[id].next = 0
            THEN WalkErr("field not found", WalkKey(keys, i), st)
            ELSE IF g[g[id].next].kind = "func"
            THEN WalkErr("unsupported type", WalkKey(keys, i), st)
            ELSE WalkLoop(g, keys, i + 1, g[id].next, ro \/ g[id].priv, st)
      [] g[id].kind = "map" ->
            IF keys[i] # "A" \/ g[id].next = 0
            THEN WalkErr("key not found in map", WalkKey(keys, i), st)
            ELSE WalkElem(g, keys, i, g[id].next, ro, st)
      [] g[id].kind = "mapint" -> WalkPanic(st)
      [] g[id].kind = "slice" ->
            IF ~IsNumber(keys[i])
            THEN WalkErr("invalid array index at key", WalkKey(keys, i), st)
            ELSE IF g[id].next = 0 \/ Atoi(keys[i]) # 0
            THEN WalkErr("array index out of bounds at key", WalkKey(keys, i), st)
            ELSE WalkElem(g, keys, i, g[id].next, ro, st)
      [] g[id].kind = "iface" ->
            IF g[id].next = 0
            THEN WalkErr("nil interface encountered at key", WalkKey(keys, i), st)
            ELSE WalkLoop(g, keys, i + 1, g[id].next, ro, st)
      [] OTHER -> WalkErr("unsupported type", WalkKey(keys, i), st)

\* The element e of a map or a slice: an interface is unwrapped when keys
\* remain.
WalkElem(g, keys, i, e, ro, st) ==
    IF i < Len(keys) /\ g[e].kind = "iface"
    THEN IF g[e].next = 0
         THEN WalkErr("nil interface encountered at key", WalkKey(keys, i), st)
         ELSE WalkLoop(g, keys, i + 1, g[e].next, ro, st)
    ELSE WalkLoop(g, keys, i + 1, e, ro, st)

\* GetValueByPath(data, path), the visited set of the call before being
\* before.
GetValueByPath(g, keys, before) ==
    IF keys = <<>> THEN WalkErr("empty path is not allowed", "", NoOut)
    ELSE WalkLoop(g, keys, 1, ValueOf(g), FALSE,
                  [visited |-> NewVisited(before), derefs |-> <<>>, at |-> <<>>])

\* val, err = GetValueByPath(data, path)
GetValueByPathAction(keys) ==
    /\ walk' = [walk EXCEPT !.keys = keys, !.calls = walk.calls + 1,
                            !.out = GetValueByPath(walk.g, keys, walk.out.visited)]
    /\ UNCHANGED <<regs, heap, last, build, iter, frame>>

\* The data the client holds; the build plays no part in a resolution.
InitWalkOn(graphs) ==
    /\ build = "amd64"
    /\ InitRegs(<<ArgList("int", <<>>), ArgList("int", <<>>)>>, <<"int", "int">>)
    /\ iter = NoIter
    /\ \E g \in graphs : walk = [NoWalk EXCEPT !.g = g]
    /\ frame = NoFrame

Graphs ==
    {g \in {<<n1, n2, n3>> : n1 \in NodesAt(1), n2 \in NodesAt(2), n3 \in NodesAt(3)} :
        WellTyped(g)}

InitWalk == InitWalkOn(Graphs)

Resolve == walk.calls = 0 /\ \E keys \in Paths : GetValueByPathAction(keys)

NextWalk == Resolve

SpecWalk == InitWalk /\ [][NextWalk]_vars

\* The outcome the caller sees.
Outcome(out) == <<out.val, out.err, out.key, out.panic>>
Resolved == walk.calls >= 1
\* The iteration in which the resolution stopped, when it stopped in one.
StoppedAt == Len(walk.out.at)
NodeAt(k) == walk.g[walk.out.at[k].id]
IsNode(k) == k <= Len(walk.out.at) /\ walk.out.at[k].id # 0

\* C14: GetValueByPath never fails fatally, an error comes with a nil value,
\* and an empty path, a missing field, a missing map key, an index that is
\* no number or out of range, and a scalar with segments remaining give an
\* error.
C14_ValueOrError ==
    Resolved =>
        /\ ~walk.out.panic
        /\ walk.out.err # "" => walk.out.val = 0
        /\ walk.keys = <<>> => walk.out.err # ""
        /\ \A k \in 1..Len(walk.keys) :
              (/\ IsNode(k)
               /\ \/ NodeAt(k).kind \in {"struct", "map"}
                        /\ (walk.keys[k] # "A" \/ NodeAt(k).next = 0)
                  \/ NodeAt(k).kind = "slice"
                        /\ (~IsNumber(walk.keys[k]) \/ NodeAt(k).next = 0)
                  \/ NodeAt(k).kind = "scalar")
                 => walk.out.err # ""

\* The data with every interface wrapper removed: what held an interface
\* value holds its dynamic value.
Unwrapped(g) ==
    [i \in NodeIds |->
        IF g[i].next # 0 /\ g[g[i].next].kind = "iface"
        THEN [g[i] EXCEPT !.next = g[g[i].next].next]
        ELSE g[i]]
\* Data whose interface values hold something, and something that is no
\* function.
NoNilInterface(g) ==
    \A i \in NodeIds : g[i].kind # "func" /\ (g[i].kind = "iface" => g[i].next # 0)

\* C15: a resolution whose cursor is an interface value at the top of some
\* iteration gives what the same path gives on the data without the
\* interface wrappers.
C15_UnwrapKeepsSegment ==
    (/\ Resolved
     /\ NoNilInterface(walk.g)
     /\ \E k \in 1..Len(walk.keys) : IsNode(k) /\ NodeAt(k).kind = "iface")
        => Outcome(walk.out)
               = Outcome(GetValueByPath(Unwrapped(walk.g), walk.keys, {}))

\* C16: when the cursor after a segment is a nil pointer and a segment
\* remains, the result is nil with the nil-pointer error naming the next
\* key, and nothing was dereferenced after the nil pointer was found.
NilPointerAt(k) ==
    IsNode(k) /\ NodeAt(k).kind = "ptr" /\ NodeAt(k).next = 0
PointerGraphs ==
    {g \in Graphs :
        \A i \in NodeIds : g[i].kind \in {"struct", "ptr", "scalar"} /\ ~g[i].priv}
Resolutions == {0, 1}

InitRewalk == InitWalkOn(PointerGraphs)

ResolveAgain ==
    walk.calls \in Resolutions /\ \E keys \in Paths : GetValueByPathAction(keys)

NextRewalk == ResolveAgain

SpecRewalk == InitRewalk /\ [][NextRewalk]_vars

\* The resolution stopped at a pointer whose address it had dereferenced
\* in an earlier iteration.
AboutToRevisit ==
    /\ StoppedAt >= 1 /\ StoppedAt <= Len(walk.keys)
    /\ IsNode(StoppedAt)
    /\ NodeAt(StoppedAt).kind = "ptr"
    /\ \E j \in 1..walk.out.at[StoppedAt].n :
          walk.out.derefs[j] = NodeAt(StoppedAt).next

\* C17: the circular-reference error is returned exactly when the walk is
\* about to dereference a pointer it has dereferenced before in the same
\* call, and the outcome of a resolution is the one of the same data and
\* path resolved alone, whatever was resolved before.
C17_CircularPerCall ==
    Resolved =>
        /\ (walk.out.err = "circular reference detected at key") <=> AboutToRevisit
        /\ Outcome(walk.out) = Outcome(GetValueByPath(walk.g, walk.keys, {}))

\* The second resolution of a path that runs round a cycle of pointers.
C17_Witness ==
    /\ walk.calls = 2
    /\ walk.out.err = "circular reference detected at key"
    /\ AboutToRevisit

\* ------------------------------------- specification: FlexibleToDataFrame

\* The values of the rows: a pointer to a value, the nil pointer, a struct,
\* and the mark of a key the row does not have.
PtrTo(x) == [k |-> "ptr", c |-> x.k, v |-> x.v]
NilPtr == [k |-> "ptr", c |-> "nil", v |-> 0]
Absent == [k |-> "absent", c |-> "fin", v |-> 0]

\* v == nil, or rv.Kind() == reflect.Ptr && rv.IsNil()
IsNilValue(v) == v = Nil \/ v = NilPtr
\* rv after rv = rv.Elem() on a pointer.
Pointee(v) == IF v.k = "ptr" THEN K(v.c, v.v) ELSE v

\* The type chosen for a value by its kind.
KindType(x) ==
    CASE x.k \in IntKinds \cup UintKinds -> "int"
      [] x.k \in FloatKinds -> "float"
      [] x.k = "bool" -> "bool"
      [] OTHER -> "string"

\* The type taken from the last value that is not nil.
RECURSIVE InferTypeFromLast(_, _)
InferTypeFromLast(data, i) ==
    IF i > Len(data) THEN ""
    ELSE IF IsNilValue(data[Len(data) + 1 - i]) THEN InferTypeFromLast(data, i + 1)
    ELSE KindType(Pointee(data[Len(data) + 1 - i]))

\* The first loop of createSeriesFromData, from position i: the type of the
\* first value that is not nil, the zero Type when there is none.
RECURSIVE InferType(_, _)
InferType(data, i) ==
    IF i > Len(data) THEN ""
    ELSE IF IsNilValue(data[i]) THEN InferType(data, i + 1)
    ELSE KindType(Pointee(data[i]))

\* The second loop: newData[i] for the value x that is not nil.
ConvertKind(t, x) ==
    CASE t = "int" ->
            IF x.k \in IntKinds \cup UintKinds THEN I(WrapInt(x.v)) ELSE Nil
      [] t = "float" ->
            IF x.k \in FloatKinds THEN [x EXCEPT !.k = "float64"] ELSE Nil
      [] t = "bool" -> IF x.k = "bool" THEN x ELSE Nil
      [] OTHER ->
            S(CASE x.k = "string" -> x.v
                [] x.k = "struct" -> 4000 + x.v
                [] OTHER -> FormatCode(x))
ConvertTo(t, v) == IF IsNilValue(v) THEN Nil ELSE ConvertKind(t, Pointee(v))

\* What the builders give for one path: a Series (col), an error, or a
\* panic.
PathSeries(res) ==
    [col |-> [Name |-> res.s.Name, t |-> res.s.t, cells |-> res.cells],
     err |-> NoErr, panic |-> res.panic]
PathError(err) ==
    [col |-> [Name |-> "", t |-> "string", cells |-> <<>>], err |-> err, panic |-> FALSE]
PathPanic ==
    [col |-> [Name |-> "", t |-> "", cells |-> <<>>], err |-> NoErr, panic |-> TRUE]

\* createSeriesFromData(data, name)
createSeriesFromDataAs(build_, data, t, name) ==
    PathSeries(New(build_, <<>>,
                   ArgList("interface", [i \in 1..Len(data) |-> ConvertTo(t, data[i])]),
                   t, name))
createSeriesFromData(build_, data, name) ==
    IF data = <<>> THEN PathError(FrameErr("data is empty", name, 0))
    ELSE createSeriesFromDataAs(build_, data, InferType(data, 1), name)

\* A row is a map[string]interface{}.  The map as the resolution of a path
\* of one key sees it: its entry for that key, if it has one, holding an
\* interface value that holds the value of the row.
FrameKeys == {"a", "b"}
RowGraph(row, path) ==
    <<Node("map", IF row[path] = Absent THEN 0 ELSE 2, FALSE),
      Node("iface", IF row[path] = Nil THEN 0 ELSE 3, FALSE),
      Node("scalar", 0, FALSE)>>
\* GetValueByPath(elem, path), and the value it returned.
ResolveInRow(row, path) == GetValueByPath(RowGraph(row, path), <<"A">>, {})
ValueInRow(row, path, out) == IF out.val = 0 THEN Nil ELSE row[path]

\* createSeriesFromPath(v, path, strictMode), from row i on, data holding
\* the values collected before.
RECURSIVE createSeriesFromPathLoop(_, _, _, _, _, _)
RECURSIVE createSeriesFromPathRow(_, _, _, _, _, _, _)
createSeriesFromPathLoop(build_, rows, path, strict, i, data) ==
    IF i > Len(rows) THEN createSeriesFromData(build_, data, path)
    ELSE createSeriesFromPathRow(build_, rows, path, strict, i, data,
                                 ResolveInRow(rows[i], path))
createSeriesFromPathRow(build_, rows, path, strict, i, data, out) ==
    IF out.panic THEN PathPanic
    ELSE IF out.err # "" /\ strict
    THEN PathError(FrameErr("error extracting value from path", path, i - 1))
    ELSE createSeriesFromPathLoop(build_, rows, path, strict, i + 1,
             Append(data, IF out.err # "" THEN Nil ELSE ValueInRow(rows[i], path, out)))
createSeriesFromPath(build_, rows, path, strict) ==
    createSeriesFromPathLoop(build_, rows, path, strict, 1, <<>>)

\* DataFrame.Mutate(s): the column of the name of s replaced, or s added
\* as the last column.
Mutate(cols, s) ==
    IF \E j \in 1..Len(cols) : cols[j].Name = s.Name
    THEN [j \in 1..Len(cols) |-> IF cols[j].Name = s.Name THEN s ELSE cols[j]]
    ELSE Append(cols, s)

\* What FlexibleToDataFrame returns.
FrameResult(cols, err, panic) == [cols |-> cols, err |-> err, panic |-> panic]

\* The loop over the paths of an empty slice.
RECURSIVE EmptyFrame(_, _, _)
EmptyFrame(paths, i, cols) ==
    IF i > Len(paths) THEN FrameResult(cols, NoErr, FALSE)
    ELSE EmptyFrame(paths, i + 1,
                    Mutate(cols, [Name |-> paths[i], t |-> "string", cells |-> <<>>]))

\* The loop over the paths of a slice with elements.
RECURSIVE FillFrame(_, _, _, _, _, _)
RECURSIVE FillFramePath(_, _, _, _, _, _, _)
FillFrame(build_, rows, strict, paths, i, cols) ==
    IF i > Len(paths) THEN FrameResult(cols, NoErr, FALSE)
    ELSE FillFramePath(build_, rows, strict, paths, i, cols,
                       createSeriesFromPath(build_, rows, paths[i], strict))
FillFramePath(build_, rows, strict, paths, i, cols, r) ==
    IF r.panic THEN FrameResult(<<>>, NoErr, TRUE)
    ELSE IF r.err # NoErr THEN FrameResult(<<>>, r.err, FALSE)
    ELSE FillFrame(build_, rows, strict, paths, i + 1,
                   IF i = 1 THEN <<r.col>> ELSE Mutate(cols, r.col))

\* FlexibleToDataFrame(data, strictMode, paths...)
FlexibleToDataFrame(build_, slice, rows, strict, paths) ==
    IF ~slice THEN FrameResult(<<>>, FrameErr("input must be a slice", "", 0), FALSE)
    ELSE IF rows = <<>> THEN EmptyFrame(paths, 1, <<>>)
    ELSE FillFrame(build_, rows, strict, paths, 1, <<>>)

\* df, err = FlexibleToDataFrame(data, strict, paths...)
FrameReturned(strict, paths, r) ==
    frame' = [frame EXCEPT !.called = TRUE, !.strict = strict, !.paths = paths,
                           !.cols = r.cols, !.err = r.err, !.panic = r.panic]
FlexibleToDataFrameAction(strict, paths) ==
    /\ FrameReturned(strict, paths,
           FlexibleToDataFrame(build, frame.slice, frame.rows, strict, paths))
    /\ UNCHANGED <<regs, heap, last, build, iter, walk>>

\* The values of the rows, the rows, and the data the client holds: no
\* slice, or a slice of up to two rows.
RowValues ==
    {Absent, Nil, NilPtr, I(1), K("uint8", 2), PtrTo(I(3)), F(One), B(TRUE), S(1),
     K("struct", 1)}
Rows == [FrameKeys -> RowValues]
RowCounts == {0, 1, 2}
FramePaths == SeqsUpTo(FrameKeys, 2)

InitFrame ==
    /\ build = "amd64"
    /\ InitRegs(<<ArgList("int", <<>>), ArgList("int", <<>>)>>, <<"int", "int">>)
    /\ iter = NoIter
    /\ walk = NoWalk
    /\ \/ frame = [NoFrame EXCEPT !.slice = FALSE]
       \/ \E n \in RowCounts : \E rows \in [1..n -> Rows] :
              frame = [NoFrame EXCEPT !.rows = rows]

BuildFrame ==
    ~frame.called
    /\ \E strict \in BOOLEAN, paths \in FramePaths :
           FlexibleToDataFrameAction(strict, paths)

NextFrame == BuildFrame

SpecFrame == InitFrame /\ [][NextFrame]_vars

\* A call made on a slice with elements.
BuiltFromRows == frame.called /\ frame.slice /\ frame.rows # <<>>
\* Row i (from 1) has no value at the path: its resolution fails.
Fails(i, path) == frame.rows[i][path] = Absent
FailingRows(path) == {i \in 1..Len(frame.rows) : Fails(i, path)}
FailingPaths == {j \in 1..Len(frame.paths) : FailingRows(frame.paths[j]) # {}}
Lowest(xs) == CHOOSE x \in xs : \A y \in xs : x <= y

\* C18: in strict mode over a slice with elements the call returns an error
\* exactly when some row fails on some path; the error names the first path
\* of the arguments with a failing row and the lowest failing row of that
\* path, and the DataFrame returned has no column.
C18_StrictFailsFirst ==
    (BuiltFromRows /\ frame.strict) =>
        /\ ~frame.panic
        /\ (frame.err # NoErr) <=> (FailingPaths # {})
        /\ FailingPaths # {} =>
              /\ frame.err.path = frame.paths[Lowest(FailingPaths)]
              /\ frame.err.row = Lowest(FailingRows(frame.paths[Lowest(FailingPaths)])) - 1
              /\ frame.cols = <<>>

\* The columns of the name of a path.
ColumnsOf(path) == {c \in 1..Len(frame.cols) : frame.cols[c].Name = path}

\* The rows hold no nil: a cell can be null by a failure only.
NoNilInRows ==
    \A i \in 1..Len(frame.rows), path \in FrameKeys : ~IsNilValue(frame.rows[i][path])

\* C19: in non-strict mode over a slice of n >= 1 rows the call neither
\* panics nor returns an error, whatever rows fail on whatever paths, and
\* the DataFrame has one column of n cells for each path asked for, null
\* where the row fails.
C19_NonStrictNeverAborts ==
    (BuiltFromRows /\ ~frame.strict /\ NoNilInRows) =>
        /\ ~frame.panic
        /\ frame.err = NoErr
        /\ Len(frame.cols) = Cardinality({frame.paths[j] : j \in 1..Len(frame.paths)})
        /\ \A j \in 1..Len(frame.paths) :
              \E c \in ColumnsOf(frame.paths[j]) :
                  /\ Len(frame.cols[c].cells) = Len(frame.rows)
                  /\ \A i \in FailingRows(frame.paths[j]) : frame.cols[c].cells[i].nan

\* The value collected for row i at a path, and the first row whose value
\* is not nil (pointers standing for what they point to).
Collected(i, path) == IF Fails(i, path) THEN Nil ELSE frame.rows[i][path]
HasValue(path) == {i \in 1..Len(frame.rows) : ~IsNilValue(Collected(i, path))}
ClaimedType(x) ==
    CASE x.k \in {"int", "int8", "int16", "int32", "int64",
                  "uint", "uint8", "uint16", "uint32", "uint64"} -> "int"
      [] x.k \in {"float32", "float64"} -> "float"
      [] x.k = "bool" -> "bool"
      [] OTHER -> "string"
ClaimedColumn(col, path) ==
    /\ Len(col.cells) = Len(frame.rows)
    /\ HasValue(path) # {}
    /\ col.t = ClaimedType(Pointee(Collected(Lowest(HasValue(path)), path)))
    /\ \A i \in HasValue(path) :
          (col.t # "string" /\ ClaimedType(Pointee(Collected(i, path))) # col.t)
              => col.cells[i].nan

\* C20: in the DataFrame a call returns, the column of a path has the type
\* of the first value collected for the path that is not nil, whatever
\* follows it and whatever the other paths hold; in an Int, Float or Bool
\* column the values of another kind are null; the column has one cell for
\* each row; and the columns stand in the order of the paths.
C20_TypeFromFirstValue ==
    (BuiltFromRows /\ ~frame.panic /\ frame.err = NoErr) =>
        /\ \A j \in 1..Len(frame.paths) :
              /\ ColumnsOf(frame.paths[j]) # {}
              /\ \A c \in ColumnsOf(frame.paths[j]) :
                    ClaimedColumn(frame.cols[c], frame.paths[j])
        /\ Len(frame.cols) = Len(frame.paths)
              => \A j \in 1..Len(frame.paths) : frame.cols[j].Name = frame.paths[j]

\* Two rows and the paths b, a: a Float column whose second value is of
\* another kind, and an Int column whose first value is nil.
C20_Witness ==
    /\ BuiltFromRows /\ ~frame.strict /\ ~frame.panic
    /\ Len(frame.rows) = 2
    /\ frame.paths = <<"b", "a">>
    /\ frame.rows[1]["b"].k = "float64" /\ frame.rows[2]["b"].k = "int"
    /\ frame.rows[1]["a"] = Nil /\ frame.rows[2]["a"].k = "uint8"
    /\ Len(frame.cols) = 2
    /\ frame.cols[1].t = "float" /\ frame.cols[1].cells[2].nan
    /\ frame.cols[2].t = "int" /\ frame.cols[2].cells[1].nan

\* --------------------------------------------------- specification: Slice

\* The bounds the client passes to Slice: from one below the first index to
\* one above the length of the longest Series.
SliceBounds == (0 - 1)..(MaxLen + 1)

InitSlice ==
    \E t \in Types : \E a \in ListsOf(t, MaxLen) :
        InitWith(<<a, ArgList("int", <<>>)>>, <<t, "int">>)

SliceOnce ==
    last.op = "init" /\ \E j \in SliceBounds, k \in SliceBounds : SliceAction(2, 1, j, k)

NextSlice == SliceOnce

SpecSlice == InitSlice /\ [][NextSlice]_vars

\* C27: on an error-free Series, Slice(j, k) with 0 <= j <= k <= Len gives an
\* error-free Series of the same name and type holding the elements j to
\* k-1 in order; with j > k, j < 0 or k > Len it gives an empty Series with
\* an error.
C27_SliceSelects ==
    [][(last'.op = "Slice" /\ regs[last'.recv].Err = "")
          => /\ ~last'.panic
             /\ IF /\ 0 <= last'.ij[1] /\ last'.ij[1] <= last'.ij[2]
                   /\ last'.ij[2] <= SeriesLen(regs[last'.recv])
                THEN /\ regs'[last'.dst].Err = ""
                     /\ regs'[last'.dst].Name = regs[last'.recv].Name
                     /\ regs'[last'.dst].t = regs[last'.recv].t
                     /\ Elems(heap', regs'[last'.dst])
                           = SubSeq(Elems(heap, regs[last'.recv]),
                                    last'.ij[1] + 1, last'.ij[2])
                ELSE /\ regs'[last'.dst].Err # ""
                     /\ SeriesLen(regs'[last'.dst]) = 0]_vars

\* ----------------------------------------------------- specification: Set

\* The indexes the client passes to Set: one position, a list of positions
\* from one below the first to one above the last, or a mask.
SetIndexes ==
    {ArgScalar(I(n)) : n \in 0..MaxLen}
    \cup {ArgList("int", xs) : xs \in SeqsUpTo({I(n) : n \in (0 - 1)..MaxLen}, MaxLen)}
    \cup {ArgList("bool", xs) : xs \in SeqsUpTo(BoolVals, MaxLen)}

InitSet ==
    \E t \in Types :
        \E a \in ListsOf(t, MaxLen), b \in ListsOf(t, MaxLen) :
            InitWith(<<a, b>>, <<t, t>>)

SetOnce ==
    last.op = "init" /\ \E ix \in SetIndexes : SetAction(2, 1, ix, 2)

NextSet == SetOnce

SpecSet == InitSet /\ [][NextSet]_vars

\* The last place of the position p in the list of indexes, 0 when p is not
\* listed.
LastPlace(idx, p) ==
    IF \E k \in DOMAIN idx : idx[k] = p
    THEN CHOOSE k \in DOMAIN idx :
            idx[k] = p /\ \A m \in DOMAIN idx : idx[m] = p => m <= k
    ELSE 0

\* C28: a Set that returns a Series with an error has modified no element
\* of the receiver; a Set that succeeds has changed exactly the listed
\* positions, position indexes[k] holding newvalues[k], and the change is
\* seen through the receiver.
C28_SetAllOrNothing ==
    [][last'.op = "Set"
          => /\ ~last'.panic
             /\ IF regs'[last'.dst].Err # ""
                THEN Elems(heap', regs'[last'.recv]) = Elems(heap, regs[last'.recv])
                ELSE \A p \in 0..(SeriesLen(regs[last'.recv]) - 1) :
                        Elems(heap', regs'[last'.recv])[p + 1] =
                           IF LastPlace(parseIndexes(heap, SeriesLen(regs[last'.recv]),
                                                     last'.arg).idx, p) = 0
                           THEN Elems(heap, regs[last'.recv])[p + 1]
                           ELSE Elems(heap, regs[last'.areg])[
                                   LastPlace(parseIndexes(heap, SeriesLen(regs[last'.recv]),
                                                          last'.arg).idx, p)]]_vars

\* ------------------------------------- ValuesIterator under every option

\* C29: for every Step, negative ones included, and every combination of
\* Reverse, SkipNaN and OnlyUnique, a call of the closure of ValuesIterator
\* reads no index outside [0, Len), the closure has returned done once it
\* has been called more often than the Series has elements, and with
\* OnlyUnique it yields no value it has yielded before.
C29_IteratorSafe ==
    [][last'.op = "IterNext"
          => /\ ~last'.panic
             /\ iter'.calls > SeriesLen(iter.s) => iter'.out = Done
             /\ (iter.OnlyUnique /\ iter'.out.ok) => iter'.out.v \notin iter.seen]_vars

\* ------------------------------------------------- specification: NewFill

\* prepareValueList(value, n, t): the list New is given and whether the
\* value has the native type of t.  The Bool case returns the value itself,
\* not the list it has filled.
prepareValueList(value, n, t) ==
    CASE t = "string" ->
            IF value.k = "string"
            THEN [list |-> ArgList("string", [i \in 1..n |-> value]), ok |-> TRUE]
            ELSE [list |-> ArgNil, ok |-> FALSE]
      [] t = "int" ->
            IF value.k = "int"
            THEN [list |-> ArgList("int", [i \in 1..n |-> value]), ok |-> TRUE]
            ELSE [list |-> ArgNil, ok |-> FALSE]
      [] t = "float" ->
            IF value.k = "float64"
            THEN [list |-> ArgList("float64", [i \in 1..n |-> value]), ok |-> TRUE]
            ELSE [list |-> ArgNil, ok |-> FALSE]
      [] t = "bool" ->
            [list |-> IF value = Nil THEN ArgNil ELSE ArgScalar(value),
             ok |-> value.k = "bool"]
      [] OTHER ->
            [list |-> IF value = Nil THEN ArgNil ELSE ArgScalar(value), ok |-> FALSE]

\* Series.NewFill(value, t, name): s.Len() on a Series without elements
\* panics; a mismatch gives a Series of type t without elements.
NewFill(build_, h, s, value, t, name) ==
    IF IsNilElements(s) THEN Panicked(h)
    ELSE IF ~prepareValueList(value, SeriesLen(s), t).ok
    THEN Ret(MkSeries(name, t, 0, 0, "newfill error: value type mismatch"), <<>>, h)
    ELSE New(build_, h, prepareValueList(value, SeriesLen(s), t).list, t, name)

\* regs[dst] = regs[r].NewFill(value, t, name)
NewFillAction(dst, r, value, t, name) ==
    /\ Running
    /\ Commit(NewFill(build, heap, regs[r], value, t, name),
              Call("NewFill", r, dst, YieldArg(value), 0, t, <<name>>))

\* The values, types and names the client fills with.
FillValues == {I(1), F(One), S(1), B(TRUE), B(FALSE), K("int32", 1), Nil}
FillTypes == Types \cup {""}
FillNames == {"", "fill"}

InitFill ==
    \E t \in Types :
        \E a \in ListsOf(t, MaxLen) : InitWith(<<a, ArgList("int", <<>>)>>, <<t, "int">>)

FillOnce ==
    last.op = "init" /\ \E value \in FillValues, t \in FillTypes, name \in FillNames :
        NewFillAction(2, 1, value, t, name)

NextFill == FillOnce

SpecFill == InitFill /\ [][NextFill]_vars

\* C30: NewFill(value, t, name) with a value of the native type of t gives
\* an error-free Series named name, of type t, as long as the receiver,
\* whose every element equals value; with a value of another type it gives
\* a Series of type t with an error.
C30_NewFillFills ==
    [][last'.op = "NewFill"
          => /\ ~last'.panic
             /\ regs'[last'.dst].t = last'.opt
             /\ IF last'.opt \in Types /\ last'.arg.kind = "scalar"
                   /\ last'.arg.items[1].k = GoType(last'.opt)
                THEN /\ regs'[last'.dst].Err = ""
                     /\ regs'[last'.dst].Name = last'.ij[1]
                     /\ SeriesLen(regs'[last'.dst]) = SeriesLen(regs[last'.recv])
                     /\ \A i \in 1..SeriesLen(regs'[last'.dst]) :
                           ElemVal(Elems(heap', regs'[last'.dst])[i]) = last'.arg.items[1]
                ELSE regs'[last'.dst].Err # ""]_vars

\* ------------------------------------------------- specification: Max, Min

\* compareElements(target, b, comparator) of compareSeriesHelper: the
\* comparison of the Elements, b read as a value of the target's type.
compareTarget(build_, a, b, c) ==
    compareElements(a, ElemSetElem(build_, a.t, b), c).ret

\* The inner loop of compareSeriesHelper on row i: the target after the
\* Series from position j on have been compared with it.
RECURSIVE RowTarget(_, _, _, _, _, _, _)
RowTarget(build_, h, ss, i, c, j, target) ==
    IF j > Len(ss) THEN target
    ELSE RowTarget(build_, h, ss, i, c, j + 1,
                   IF compareTarget(build_, target, Elems(h, ss[j])[i], c)
                   THEN target ELSE Elems(h, ss[j])[i])

\* The last Float Series of ss, 0 when there is none.
LastFloat(ss) ==
    IF \E k \in DOMAIN ss : ss[k].t = "float"
    THEN CHOOSE k \in DOMAIN ss :
            ss[k].t = "float" /\ \A m \in DOMAIN ss : ss[m].t = "float" => m <= k
    ELSE 0

\* The Series compareSeriesHelper copies for its result.
ResultSource(ss) ==
    IF LastFloat(ss) # 0 /\ SeriesLen(ss[LastFloat(ss)]) > 0
    THEN ss[LastFloat(ss)] ELSE ss[1]

\* compareSeriesHelper(ss, name, comparator)
compareSeriesHelper(build_, h, ss, name, c) ==
    IF Len(ss) = 0 THEN Ret(MkSeries("", "", 0, 0, "no series provided"), <<>>, h)
    ELSE IF \E k \in DOMAIN ss : IsNilElements(ss[k]) THEN Panicked(h)
    ELSE IF \E k \in DOMAIN ss : SeriesLen(ss[k]) # SeriesLen(ss[1])
    THEN Ret(MkSeries("", "", 0, 0, "all series must have the same length"), <<>>, h)
    ELSE IF \E k \in DOMAIN ss : ss[k].t \notin {"int", "float", "string"}
    THEN Ret(MkSeries("", "", 0, 0, "series of type bool cannot be compared"), <<>>, h)
    ELSE Fresh(name, ResultSource(ss).t, ResultSource(ss).Err,
               [i \in 1..SeriesLen(ss[1]) |->
                   ElemSetElem(build_, ResultSource(ss).t,
                               RowTarget(build_, h, ss, i, c, 1, Elems(h, ss[1])[i]))],
               SeriesLen(ss[1]), h)

\* The name Max and Min put on what compareSeriesHelper returns.
Renamed(res, name) ==
    IF res.panic \/ name = "" THEN res ELSE [res EXCEPT !.s.Name = name]

\* Max(name, ss...) and Min(name, ss...)
Max(build_, h, name, ss) == Renamed(compareSeriesHelper(build_, h, ss, "max", ">"), name)
Min(build_, h, name, ss) == Renamed(compareSeriesHelper(build_, h, ss, "min", "<"), name)

\* regs[dst] = Max(name, regs[rs[1]], ..., regs[rs[n]])
MaxAction(dst, name, rs) ==
    /\ Running
    /\ Commit(Max(build, heap, name, [k \in DOMAIN rs |-> regs[rs[k]]]),
              Call("Max", dst, dst, ArgNil, 0, name, rs))

\* regs[dst] = Min(name, regs[rs[1]], ..., regs[rs[n]])
MinAction(dst, name, rs) ==
    /\ Running
    /\ Commit(Min(build, heap, name, [k \in DOMAIN rs |-> regs[rs[k]]]),
              Call("Min", dst, dst, ArgNil, 0, name, rs))

\* The names and the lists of Series the client passes, a Series possibly
\* more than once.
MaxNames == {"", "m"}
MaxInputs == SeqsUpTo(Regs, 3)

\* Two Series of one type, an Int and a Float one, or a Bool one with any.
InitMax ==
    \E t \in Types, u \in Types :
        /\ t = u \/ {t, u} = {"int", "float"} \/ "bool" \in {t, u}
        /\ \E a \in ListsOf(t, MaxLen), b \in ListsOf(u, MaxLen) :
              InitWith(<<a, b>>, <<t, u>>)

MaxOnce ==
    last.op = "init" /\ \E name \in MaxNames, rs \in MaxInputs : MaxAction(2, name, rs)
MinOnce ==
    last.op = "init" /\ \E name \in MaxNames, rs \in MaxInputs : MinAction(2, name, rs)

NextMax == MaxOnce \/ MinOnce

SpecMax == InitMax /\ [][NextMax]_vars

\* The Series passed to the call: the registers rs before the call.
Given(rs) == [k \in DOMAIN rs |-> regs[rs[k]]]
\* The calls that have to fail: no Series, unequal lengths, or a Bool input.
NotComparable(ss) ==
    \/ Len(ss) = 0
    \/ \E k \in DOMAIN ss : SeriesLen(ss[k]) # SeriesLen(ss[1])
    \/ \E k \in DOMAIN ss : ss[k].t = "bool"
\* e is one of the elements of row i and none of them beats it under c.
Extreme(c, h, ss, i, e) ==
    /\ \E k \in DOMAIN ss : Elems(h, ss[k])[i] = e
    /\ \A k \in DOMAIN ss : ~compareElements(Elems(h, ss[k])[i], e, c).ret

\* C26: Max (Min) over one or more Series of equal length and one common
\* type among Int, Float and String returns an error-free Series of that
\* length and type, named by the name passed or "max" ("min") when it is
\* empty, whose element i is the greatest (least) of the elements i of the
\* inputs, and leaves the inputs unchanged; Int and Float inputs mixed give
\* a Float result; no Series, unequal lengths or a Bool input give an error.
C26_MaxMinElementwise ==
    [][last'.op \in {"Max", "Min"}
          => /\ ~last'.panic
             /\ regs'[1] = regs[1] /\ Elems(heap', regs'[1]) = Elems(heap, regs[1])
             /\ IF NotComparable(Given(last'.ij))
                THEN regs'[last'.dst].Err # ""
                ELSE /\ regs'[last'.dst].Err = ""
                     /\ SeriesLen(regs'[last'.dst]) = SeriesLen(regs[last'.ij[1]])
                     /\ regs'[last'.dst].Name =
                           IF last'.opt # "" THEN last'.opt
                           ELSE IF last'.op = "Max" THEN "max" ELSE "min"
                     /\ IF \A k \in DOMAIN last'.ij : regs[last'.ij[k]].t = regs[last'.ij[1]].t
                        THEN /\ regs'[last'.dst].t = regs[last'.ij[1]].t
                             /\ \A i \in 1..SeriesLen(regs'[last'.dst]) :
                                   Extreme(IF last'.op = "Max" THEN ">" ELSE "<",
                                           heap, Given(last'.ij), i,
                                           Elems(heap', regs'[last'.dst])[i])
                        ELSE regs'[last'.dst].t = "float"]_vars

\* ------------------------------------------ specification: MapToDataFrame

\* The keys of the maps, as the codes of strings whose lexicographic order
\* is the order of the codes.
MapKeyCodes == {1, 2}

\* sort.Strings(sortedKeys) on distinct keys.
RECURSIVE SortStrings(_)
SortStrings(keys) ==
    IF keys = <<>> THEN <<>>
    ELSE LET m == CHOOSE x \in {keys[i] : i \in DOMAIN keys} :
                     \A i \in DOMAIN keys : x <= keys[i]
         IN  <<m>> \o SortStrings(SelectSeq(keys, LAMBDA x : x # m))

\* DataFrame.Nrow() and DataFrame.Names().
Nrow(cols) == IF cols = <<>> THEN 0 ELSE Len(cols[1].cells)
Names(cols) == [j \in 1..Len(cols) |-> cols[j].Name]
\* The column of the name n, and n times the cell without a value.
ColNamed(cols, n) == cols[CHOOSE j \in 1..Len(cols) : cols[j].Name = n]
HasCol(cols, n) == \E j \in 1..Len(cols) : cols[j].Name = n
NaCells(t_, n) == [i \in 1..n |-> NaElem(t_)]

\* DataFrame.Select(names): the columns of these names, in this order.
Select(cols, names) == [j \in 1..Len(names) |-> ColNamed(cols, names[j])]

\* a.Concat(b): the rows of b under the rows of a, column by column on the
\* names, each cell set into the type the column has in a.
FrameConcatCol(build_, a, b, n, t_) ==
    [Name |-> n, t |-> t_,
     cells |-> (IF HasCol(a, n) THEN ColNamed(a, n).cells ELSE NaCells(t_, Nrow(a)))
               \o (IF HasCol(b, n)
                   THEN [i \in 1..Nrow(b) |->
                            ElemSetElem(build_, t_, ColNamed(b, n).cells[i])]
                   ELSE NaCells(t_, Nrow(b)))]
FrameConcatNames(a, b) ==
    Names(a) \o SelectSeq(Names(b), LAMBDA n : ~HasCol(a, n))
FrameConcat(build_, a, b) ==
    [j \in 1..Len(FrameConcatNames(a, b)) |->
        FrameConcatCol(build_, a, b, FrameConcatNames(a, b)[j],
                       IF HasCol(a, FrameConcatNames(a, b)[j])
                       THEN ColNamed(a, FrameConcatNames(a, b)[j]).t
                       ELSE ColNamed(b, FrameConcatNames(a, b)[j]).t)]

\* The body of the loop of MapToDataFrame once FlexibleToDataFrame has
\* returned the columns cols without an error: the column of the key is
\* set, put first, and the block is joined to the result.
KeySeries(build_, key, n, topColumn) ==
    [Name |-> topColumn, t |-> "string",
     cells |-> [i \in 1..n |-> ElemSet(build_, "string", S(key))]]
KeyedBlock(build_, key, cols, topColumn) ==
    Select(Mutate(cols, KeySeries(build_, key, Nrow(cols), topColumn)),
           <<topColumn>> \o Names(cols))

\* The loop of MapToDataFrame from the key at position index on.
RECURSIVE MapLoop(_, _, _, _, _, _, _, _)
RECURSIVE MapLoopKey(_, _, _, _, _, _, _, _, _)
MapLoop(build_, data, sortedKeys, index, strict, paths, topColumn, resultDF) ==
    IF index > Len(sortedKeys) THEN FrameResult(resultDF, NoErr, FALSE)
    ELSE MapLoopKey(build_, data, sortedKeys, index, strict, paths, topColumn, resultDF,
                    FlexibleToDataFrame(build_, TRUE, data[sortedKeys[index]], strict, paths))
MapLoopKey(build_, data, sortedKeys, index, strict, paths, topColumn, resultDF, r) ==
    IF r.panic THEN FrameResult(<<>>, NoErr, TRUE)
    ELSE IF r.err # NoErr THEN FrameResult(<<>>, r.err, FALSE)
    ELSE MapLoop(build_, data, sortedKeys, index + 1, strict, paths, topColumn,
                 IF index = 1
                 THEN KeyedBlock(build_, sortedKeys[index], r.cols, topColumn)
                 ELSE FrameConcat(build_, resultDF,
                                  KeyedBlock(build_, sortedKeys[index], r.cols, topColumn)))

\* MapToDataFrame(data, topColumn, strictMode, paths...), keys being what
\* v.MapKeys() returned.
MapToDataFrame(build_, data, keys, topColumn, strict, paths) ==
    MapLoop(build_, data, SortStrings(keys), 1, strict, paths, topColumn, <<>>)

\* df, err = MapToDataFrame(frame.rows, topColumn, strict, paths...)
MapToDataFrameAction(keys, topColumn, strict, paths) ==
    /\ FrameReturned(strict, paths,
           MapToDataFrame(build, frame.rows, keys, topColumn, strict, paths))
    /\ last' = Logged(Call("MapToDataFrame", 1, 1, ArgNil, 0, topColumn, keys))
    /\ UNCHANGED <<regs, heap, build, iter, walk>>

\* The maps the client holds: each key absent or a slice of up to two rows
\* over the keys of FrameKeys.
MapRowValues == {Absent, I(1), S(1)}
MapRows == [FrameKeys -> MapRowValues]
MapSlices == UNION {[1..n -> MapRows] : n \in RowCounts}
Maps == UNION {[ks -> MapSlices] : ks \in SUBSET MapKeyCodes}
\* The orders in which v.MapKeys() may return the keys of data.
KeyOrders(data) ==
    {ks \in SeqsUpTo(DOMAIN data, Cardinality(DOMAIN data)) :
        /\ Len(ks) = Cardinality(DOMAIN data)
        /\ \A i, j \in DOMAIN ks : i # j => ks[i] # ks[j]}
MapPaths == {<<>>, <<"a">>, <<"a", "b">>, <<"b", "a">>}

InitMap ==
    /\ build = "amd64"
    /\ InitRegs(<<ArgList("int", <<>>), ArgList("int", <<>>)>>, <<"int", "int">>)
    /\ iter = NoIter
    /\ walk = NoWalk
    /\ \E data \in Maps : frame = [NoFrame EXCEPT !.rows = data]

BuildFromMap ==
    ~frame.called
    /\ \E keys \in KeyOrders(frame.rows), strict \in BOOLEAN, paths \in MapPaths :
           MapToDataFrameAction(keys, "key", strict, paths)

NextMap == BuildFromMap

SpecMap == InitMap /\ [][NextMap]_vars

\* The number of rows of the slices of data under the keys up to k.
RECURSIVE RowsUpTo(_, _)
RowsUpTo(data, k) ==
    IF k <= 0 THEN 0
    ELSE (IF k \in DOMAIN data THEN Len(data[k]) ELSE 0) + RowsUpTo(data, k - 1)
AllRows(data) == RowsUpTo(data, CHOOSE k \in MapKeyCodes : \A m \in MapKeyCodes : m <= k)
\* A call that made MapToDataFrame return, and one the claims on it are
\* about: a map with keys, a path at least, and in strict mode no row on
\* which a path fails.
MapBuilt == frame.called /\ last.op = "MapToDataFrame"
NoStrictFailure ==
    frame.strict =>
        \A k \in DOMAIN frame.rows : \A i \in DOMAIN frame.rows[k] :
            \A j \in DOMAIN frame.paths : frame.rows[k][i][frame.paths[j]] # Absent
\* The frame FlexibleToDataFrame gives for the slice of the key k alone.
OwnBlock(k) == FlexibleToDataFrame(build, TRUE, frame.rows[k], frame.strict, frame.paths).cols

\* C21: for a map from string keys to slices MapToDataFrame returns, in
\* whatever order the map hands out its keys, the DataFrame whose first
\* column is topColumn, whose blocks of rows stand in ascending order of
\* the keys, each block in the order of its slice and its topColumn cells
\* holding the key, and whose row count is the sum of the slice lengths.
C21_MapBlocksInKeyOrder ==
    (MapBuilt /\ DOMAIN frame.rows # {} /\ frame.paths # <<>> /\ NoStrictFailure)
        => /\ ~frame.panic
           /\ frame.err = NoErr
           /\ Len(frame.cols) >= 1
           /\ frame.cols[1].Name = last.opt
           /\ \A j \in DOMAIN frame.cols :
                 Len(frame.cols[j].cells) = AllRows(frame.rows)
           /\ \A k \in DOMAIN frame.rows : \A i \in DOMAIN frame.rows[k] :
                 /\ ElemVal(frame.cols[1].cells[RowsUpTo(frame.rows, k - 1) + i]) = S(k)
                 /\ \A j \in 2..Len(frame.cols) :
                       frame.cols[j].cells[RowsUpTo(frame.rows, k - 1) + i] =
                          ElemSetElem(build, frame.cols[j].t,
                                      ColNamed(OwnBlock(k), frame.cols[j].Name).cells[i])

\* ------------------------------------ specification: DeepSliceToDataFrame

\* A record of the outer slice: the value under topColumnPath and what
\* stands under slicePath (nothing, nil, a value that is no slice, or a
\* slice of rows).
Record(top, kind, rows) == [top |-> top, deep |-> [kind |-> kind, rows |-> rows]]
\* The record as GetValueByPath sees it under the two paths.
RecordRow(rec) ==
    [topColumn |-> rec.top,
     deepSlice |-> CASE rec.deep.kind = "absent" -> Absent
                     [] rec.deep.kind = "nil" -> Nil
                     [] OTHER -> K(rec.deep.kind, 0)]

\* What the loop of DeepSliceToDataFrame has collected, or its error.
Gathered(tops, all, err) == [tops |-> tops, all |-> all, err |-> err]

\* The loop over the records from position i on.
RECURSIVE DeepLoop(_, _, _, _, _)
RECURSIVE DeepLoopRecord(_, _, _, _, _, _, _)
DeepLoop(recs, i, strict, tops, all) ==
    IF i > Len(recs) THEN Gathered(tops, all, NoErr)
    ELSE DeepLoopRecord(recs, i, strict, tops, all,
                        ResolveInRow(RecordRow(recs[i]), "topColumn"),
                        ResolveInRow(RecordRow(recs[i]), "deepSlice"))
DeepLoopRecord(recs, i, strict, tops, all, top, deep) ==
    IF top.err # "" /\ strict
    THEN Gathered(<<>>, <<>>,
                  FrameErr("error extracting top column value at index", "topColumn", i - 1))
    ELSE IF deep.err # "" /\ strict
    THEN Gathered(<<>>, <<>>,
                  FrameErr("error extracting deep slice at index", "deepSlice", i - 1))
    ELSE IF deep.err # "" THEN DeepLoop(recs, i + 1, strict, tops, all)
    ELSE IF recs[i].deep.kind # "slice"
    THEN Gathered(<<>>, <<>>, FrameErr("value at slicePath must be a slice", "", 0))
    ELSE DeepLoop(recs, i + 1, strict,
                  tops \o [j \in 1..Len(recs[i].deep.rows) |->
                              IF top.err # "" THEN Nil
                              ELSE ValueInRow(RecordRow(recs[i]), "topColumn", top)],
                  all \o recs[i].deep.rows)

\* The end of DeepSliceToDataFrame: the frame of the gathered rows, the
\* column of the tags set and put first.
DeepFrame(build_, g, r, topColumnPath) ==
    IF r.panic THEN FrameResult(<<>>, NoErr, TRUE)
    ELSE IF r.err # NoErr
    THEN FrameResult(<<>>, FrameErr("error creating DataFrame from deep slice data",
                                    r.err.path, r.err.row), FALSE)
    ELSE FrameResult(
            Select(Mutate(r.cols,
                          [Name |-> topColumnPath, t |-> "string",
                           cells |-> [j \in 1..Len(g.tops) |->
                                         ElemSet(build_, "string", g.tops[j])]]),
                   <<topColumnPath>> \o Names(r.cols)),
            NoErr, FALSE)

\* DeepSliceToDataFrame(data, "topColumn", "deepSlice", strictMode, paths...)
DeepSliceGathered(build_, g, strict, paths) ==
    IF g.err # NoErr THEN FrameResult(<<>>, g.err, FALSE)
    ELSE DeepFrame(build_, g, FlexibleToDataFrame(build_, TRUE, g.all, strict, paths),
                   "topColumn")
DeepSliceToDataFrame(build_, recs, strict, paths) ==
    DeepSliceGathered(build_, DeepLoop(recs, 1, strict, <<>>, <<>>), strict, paths)

\* df, err = DeepSliceToDataFrame(frame.rows, "topColumn", "deepSlice", ...)
DeepSliceToDataFrameAction(strict, paths) ==
    /\ FrameReturned(strict, paths, DeepSliceToDataFrame(build, frame.rows, strict, paths))
    /\ last' = Logged(Call("DeepSliceToDataFrame", 1, 1, ArgNil, 0, "topColumn", <<>>))
    /\ UNCHANGED <<regs, heap, build, iter, walk>>

\* The slices the client holds: up to two records, each with a tag or
\* none and with nothing, nil, a number or a slice of up to two rows under
\* slicePath.
DeepRows == [FrameKeys -> {Absent, I(1)}]
DeepTags == {Absent, S(1), S(2)}
Records ==
    {Record(top, kind, <<>>) : top \in DeepTags, kind \in {"absent", "nil", "int"}}
    \cup {Record(top, "slice", rows) :
             top \in DeepTags, rows \in UNION {[1..n -> DeepRows] : n \in RowCounts}}
DeepPaths == {<<"a">>, <<"a", "b">>}

InitDeep ==
    /\ build = "amd64"
    /\ InitRegs(<<ArgList("int", <<>>), ArgList("int", <<>>)>>, <<"int", "int">>)
    /\ iter = NoIter
    /\ walk = NoWalk
    /\ \E n \in RowCounts : \E recs \in [1..n -> Records] :
          frame = [NoFrame EXCEPT !.rows = recs]

BuildFromDeep ==
    ~frame.called
    /\ \E strict \in BOOLEAN, paths \in DeepPaths : DeepSliceToDataFrameAction(strict, paths)

NextDeep == BuildFromDeep

SpecDeep == InitDeep /\ [][NextDeep]_vars

\* A call that made DeepSliceToDataFrame return, on records whose slicePath
\* holds a slice when it resolves.
DeepBuilt == frame.called /\ last.op = "DeepSliceToDataFrame"
NestedAreSlices ==
    \A i \in DOMAIN frame.rows : frame.rows[i].deep.kind \in {"absent", "slice"}
\* The records on which topColumnPath or slicePath does not resolve.
Unresolved(recs) ==
    {i \in DOMAIN recs : recs[i].top = Absent \/ recs[i].deep.kind = "absent"}
\* The elements of the nested slices from record i on, in record order and
\* then nested order, and the tag of the record of each.
RECURSIVE NestedRows(_, _)
NestedRows(recs, i) ==
    IF i > Len(recs) THEN <<>>
    ELSE (IF recs[i].deep.kind = "slice" THEN recs[i].deep.rows ELSE <<>>)
         \o NestedRows(recs, i + 1)
RECURSIVE NestedTags(_, _)
NestedTags(recs, i) ==
    IF i > Len(recs) THEN <<>>
    ELSE (IF recs[i].deep.kind = "slice"
          THEN [j \in 1..Len(recs[i].deep.rows) |->
                   IF recs[i].top = Absent THEN Nil ELSE recs[i].top]
          ELSE <<>>)
         \o NestedTags(recs, i + 1)
\* In strict mode no path fails on a nested element.
NoStrictPathFailure ==
    frame.strict =>
        \A n \in DOMAIN NestedRows(frame.rows, 1) : \A j \in DOMAIN frame.paths :
            NestedRows(frame.rows, 1)[n][frame.paths[j]] # Absent

\* C22: DeepSliceToDataFrame gives one row for each element of each nested
\* slice, in record order and then nested order, its first column named
\* topColumnPath and holding in each row the tag of the record the row
\* comes from; when not strict a record whose slicePath does not resolve
\* gives no row; when strict a record whose topColumnPath or slicePath does
\* not resolve ends the call with an error that names the index of the
\* record.
C22_DeepSliceRows ==
    (DeepBuilt /\ NestedAreSlices /\ NoStrictPathFailure)
        => IF frame.strict /\ Unresolved(frame.rows) # {}
           THEN /\ ~frame.panic
                /\ frame.err # NoErr
                /\ frame.err.path \in {"topColumn", "deepSlice"}
                /\ frame.err.row = Lowest(Unresolved(frame.rows)) - 1
           ELSE /\ ~frame.panic
                /\ frame.err = NoErr
                /\ Len(frame.cols) = 1 + Len(frame.paths)
                /\ frame.cols[1].Name = last.opt
                /\ \A j \in DOMAIN frame.cols :
                      Len(frame.cols[j].cells) = Len(NestedRows(frame.rows, 1))
                /\ \A n \in DOMAIN NestedRows(frame.rows, 1) :
                      frame.cols[1].cells[n] =
                         ElemSet(build, "string", NestedTags(frame.rows, 1)[n])
                /\ \A j \in 2..Len(frame.cols) :
                      frame.cols[j] =
                         ColNamed(FlexibleToDataFrame(build, TRUE, NestedRows(frame.rows, 1),
                                                      frame.strict, frame.paths).cols,
                                  frame.paths[j - 1])

\* ---------------------------------------- specification: DataframeToStruct

\* A field of the struct type T: its json tag ("" when it has none), its
\* required mark and its kind.
Field(tag, required, kind) == [tag |-> tag, required |-> required, kind |-> kind]
ZeroField(kind) == IF kind = "string" THEN S(0) ELSE I(0)

\* tagToField and requiredFields as the first loop of DataframeToStruct
\* leaves them: a tag leads to the last field that bears it, and is
\* required once a field that bears it is.
Tags(T) == {T[i].tag : i \in DOMAIN T} \ {""}
tagToField(T, tag) ==
    CHOOSE i \in DOMAIN T : T[i].tag = tag /\ \A j \in DOMAIN T : T[j].tag = tag => j <= i
requiredFields(T) == {T[i].tag : i \in {j \in DOMAIN T : T[j].tag # "" /\ T[j].required}}

\* setField(field, value): nil is skipped, a string field takes the text
\* of the value, an int field the number strconv.ParseInt reads in it.
setField(kind, old, value) ==
    IF value = Nil THEN [val |-> old, err |-> FALSE]
    ELSE IF kind = "string"
    THEN [val |-> IF value.k = "string" THEN value ELSE S(FormatCode(value)), err |-> FALSE]
    ELSE IF value.k = "int" THEN [val |-> value, err |-> FALSE]
    ELSE [val |-> old, err |-> TRUE]

\* What DataframeToStruct returns: the structs (result is nil as long as
\* none was appended) and the error with the tags it lists.
StructErr(msg, row, tags) == [msg |-> msg, row |-> row, tags |-> tags]
NoStructErr == StructErr("", 0, <<>>)
Structs(items, err) == [cols |-> items, err |-> err, panic |-> FALSE]

\* The loop over the tags of tagToField for row i, in the order the map
\* hands them out, from position k on.
RECURSIVE TagLoop(_, _, _, _, _, _, _)
TagLoop(T, df, i, order, k, newStruct, missing) ==
    IF k > Len(order) THEN [newStruct |-> newStruct, missing |-> missing, err |-> NoStructErr]
    ELSE IF ~HasCol(df, order[k])
    THEN TagLoop(T, df, i, order, k + 1, newStruct,
                 IF order[k] \in requiredFields(T) THEN Append(missing, order[k])
                 ELSE missing)
    ELSE IF setField(T[tagToField(T, order[k])].kind, newStruct[tagToField(T, order[k])],
                     ColNamed(df, order[k]).cells[i]).err
    THEN [newStruct |-> newStruct, missing |-> missing,
          err |-> StructErr("error setting field for tag", i - 1, <<order[k]>>)]
    ELSE TagLoop(T, df, i, order, k + 1,
                 [newStruct EXCEPT ![tagToField(T, order[k])] =
                     setField(T[tagToField(T, order[k])].kind,
                              newStruct[tagToField(T, order[k])],
                              ColNamed(df, order[k]).cells[i]).val],
                 missing)

\* The loop over the rows from row i on.
RECURSIVE StructLoop(_, _, _, _, _)
RECURSIVE StructLoopRow(_, _, _, _, _, _)
StructLoop(T, df, i, order, result) ==
    IF i > Nrow(df) THEN Structs(result, NoStructErr)
    ELSE StructLoopRow(T, df, i, order, result,
                       TagLoop(T, df, i, order, 1,
                               [f \in DOMAIN T |-> ZeroField(T[f].kind)], <<>>))
StructLoopRow(T, df, i, order, result, r) ==
    IF r.err # NoStructErr THEN Structs(<<>>, r.err)
    ELSE IF Len(r.missing) > 0
    THEN Structs(<<>>, StructErr("missing required fields at row", i - 1, r.missing))
    ELSE StructLoop(T, df, i + 1, order, Append(result, r.newStruct))

\* DataframeToStruct[T](df), order being the order in which the map
\* tagToField hands out its tags.
DataframeToStruct(T, df, order) == StructLoop(T, df, 1, order, <<>>)

\* result, err = DataframeToStruct[frame.rows.T](frame.rows.df)
DataframeToStructAction(order) ==
    /\ FrameReturned(FALSE, order, DataframeToStruct(frame.rows.T, frame.rows.df, order))
    /\ last' = Logged(Call("DataframeToStruct", 1, 1, ArgNil, 0, "", <<>>))
    /\ UNCHANGED <<regs, heap, build, iter, walk>>

\* The struct types (two fields), and the DataFrames of up to two rows
\* over the columns a and b whose rows hold nil, a number or a word.
StructTypes ==
    [1..2 -> {Field(tag, required, kind) :
                 tag \in {"", "a", "b"}, required \in BOOLEAN, kind \in {"string", "int"}}]
RowCells == {Nil, I(1), S(1)}
StructFrames ==
    {<<>>} \cup
    UNION {{[j \in 1..Len(names) |-> [Name |-> names[j], t |-> "string", cells |-> cs[j]]] :
               cs \in [1..Len(names) -> [1..n -> RowCells]]} :
           names \in {<<"a">>, <<"b">>, <<"a", "b">>}, n \in RowCounts}
TagOrders(T) ==
    {o \in SeqsUpTo(Tags(T), 2) :
        /\ Len(o) = Cardinality(Tags(T))
        /\ \A i, j \in DOMAIN o : i # j => o[i] # o[j]}

InitStruct ==
    /\ build = "amd64"
    /\ InitRegs(<<ArgList("int", <<>>), ArgList("int", <<>>)>>, <<"int", "int">>)
    /\ iter = NoIter
    /\ walk = NoWalk
    /\ \E T \in StructTypes, df \in StructFrames :
          frame = [NoFrame EXCEPT !.rows = [T |-> T, df |-> df]]

BuildStructs ==
    ~frame.called /\ \E order \in TagOrders(frame.rows.T) : DataframeToStructAction(order)

NextStruct == BuildStructs

SpecStruct == InitStruct /\ [][NextStruct]_vars

\* A call that made DataframeToStruct return; the tags marked required that
\* are no column of the DataFrame; the cells all convert.
StructsBuilt == frame.called /\ last.op = "DataframeToStruct"
MissingRequired ==
    {frame.rows.T[i].tag :
        i \in {j \in DOMAIN frame.rows.T :
                  /\ frame.rows.T[j].tag # "" /\ frame.rows.T[j].required
                  /\ ~HasCol(frame.rows.df, frame.rows.T[j].tag)}}
EveryCellConverts ==
    \A f \in DOMAIN frame.rows.T :
        (frame.rows.T[f].kind = "int" /\ HasCol(frame.rows.df, frame.rows.T[f].tag))
            => \A i \in 1..Nrow(frame.rows.df) :
                  ColNamed(frame.rows.df, frame.rows.T[f].tag).cells[i].k \in {"int", "nil"}
\* The field f is the one its tag leads to.
OwnsTag(f) ==
    /\ frame.rows.T[f].tag # ""
    /\ \A g \in DOMAIN frame.rows.T : frame.rows.T[g].tag = frame.rows.T[f].tag => g <= f

\* C23: when a tag marked required is no column of the DataFrame,
\* DataframeToStruct returns a nil result and an error listing every such
\* tag, whatever the number of rows; when none is and every cell converts,
\* it returns one struct per row in row order, the fields whose tag is no
\* column keeping their zero value.
C23_RequiredTagsOrStructs ==
    StructsBuilt
        => IF MissingRequired # {}
           THEN /\ frame.cols = <<>>
                /\ frame.err # NoStructErr
                /\ {frame.err.tags[k] : k \in DOMAIN frame.err.tags} = MissingRequired
           ELSE EveryCellConverts
                   => /\ frame.err = NoStructErr
                      /\ Len(frame.cols) = Nrow(frame.rows.df)
                      /\ \A i \in DOMAIN frame.cols : \A f \in DOMAIN frame.rows.T :
                            IF ~HasCol(frame.rows.df, frame.rows.T[f].tag)
                            THEN frame.cols[i][f] = ZeroField(frame.rows.T[f].kind)
                            ELSE OwnsTag(f)
                                    => frame.cols[i][f] =
                                          setField(frame.rows.T[f].kind,
                                                   ZeroField(frame.rows.T[f].kind),
                                                   ColNamed(frame.rows.df,
                                                            frame.rows.T[f].tag).cells[i]).val

\* ------------------------------------------------ specification: DeepCopy

\* The source of a DeepCopy is a list of objects.  An object is a struct
\* with the field Val int after (structVN) or before (structNV) its other
\* fields, a map, or a slice; kids names, for each other field, entry or
\* element, the object it refers to (0: nil), through a pointer (via
\* "ptr") or through an interface{} (via "iface") that holds a pointer to
\* the struct, or the map or slice itself; nil marks a nil map or slice.
Object(shape, via, kids, nil) == [shape |-> shape, via |-> via, kids |-> kids, nil |-> nil]
IsStructObject(o) == o.shape \in {"structVN", "structNV"}

\* A reflect.Value of the source: the struct obj, the field, entry or
\* element slot of obj, a pointer to the struct obj held by an interface,
\* or the map or slice obj; addr is its UnsafeAddr, 0 when !CanAddr().
SrcValue(kind, obj, slot, addr) == [kind |-> kind, obj |-> obj, slot |-> slot, addr |-> addr]
\* The address of the object obj, and of slot i of an object that stands
\* at addr: the first field of a struct has the address of the struct.
Base(obj) == 10 * obj
SlotAddr(o, i, addr) ==
    IF addr = 0 \/ o.shape = "map" THEN 0
    ELSE IF o.shape = "structVN" THEN addr + i ELSE addr + i - 1
SlotValues(g, obj, addr) ==
    [i \in 1..Len(g[obj].kids) |-> SrcValue("slot", obj, i, SlotAddr(g[obj], i, addr))]

\* The value written into dst: its kind, its parts and its number.
Clone(k, kids, v) == [k |-> k, kids |-> kids, v |-> v]
NilClone == Clone("nil", <<>>, 0)
\* What a call of deepCopy gives: dst, the addresses visited so far, and
\* whether the recursion never returns.
Copied(clone, visited) ==
    [clone |-> clone, visited |-> visited, err |-> "", diverges |-> FALSE]
Diverged == [clone |-> NilClone, visited |-> {}, err |-> "", diverges |-> TRUE]
Built(k, v, r) == IF r.diverges THEN r ELSE [r EXCEPT !.clone = Clone(k, r.clone, v)]
Wrapped(k, r) == IF r.diverges THEN r ELSE [r EXCEPT !.clone = Clone(k, <<r.clone>>, 0)]

\* deepCopy(dst, src, visited).  path holds the calls the current one is
\* nested in: a call met again with the same visited set recurs for ever.
RECURSIVE deepCopy(_, _, _, _)
RECURSIVE deepCopySwitch(_, _, _, _)
RECURSIVE CopySlots(_, _, _, _, _, _)
RECURSIVE CopySlotsNext(_, _, _, _, _, _)
CopySlots(g, ds, i, visited, path, acc) ==
    IF i > Len(ds) THEN Copied(acc, visited)
    ELSE CopySlotsNext(g, ds, i, path, acc, deepCopy(g, ds[i], visited, path))
CopySlotsNext(g, ds, i, path, acc, r) ==
    IF r.diverges THEN Diverged
    ELSE CopySlots(g, ds, i + 1, r.visited, path, Append(acc, r.clone))
\* case reflect.Struct on the struct obj standing at addr.
CopyFields(g, obj, addr, visited, path) ==
    Built("struct", obj, CopySlots(g, SlotValues(g, obj, addr), 1, visited, path, <<>>))
deepCopy(g, src, visited, path) ==
    IF <<src, visited>> \in path THEN Diverged
    ELSE IF src.addr # 0 /\ src.addr \in visited THEN Copied(NilClone, visited)
    ELSE deepCopySwitch(g, src,
                        IF src.addr # 0 THEN visited \cup {src.addr} ELSE visited,
                        path \cup {<<src, visited>>})
deepCopySwitch(g, src, visited, path) ==
    CASE src.kind = "struct" -> CopyFields(g, src.obj, src.addr, visited, path)
      [] src.kind = "ptrval" ->
            Wrapped("ptr", CopyFields(g, src.obj, Base(src.obj), visited, path))
      [] src.kind = "slot" /\ g[src.obj].kids[src.slot] = 0 -> Copied(NilClone, visited)
      [] src.kind = "slot" /\ g[src.obj].kids[src.slot] # 0 /\ g[src.obj].via = "ptr" ->
            Wrapped("ptr", CopyFields(g, g[src.obj].kids[src.slot],
                                      Base(g[src.obj].kids[src.slot]), visited, path))
      [] src.kind = "slot" /\ g[src.obj].kids[src.slot] # 0 /\ g[src.obj].via = "iface" ->
            Wrapped("iface",
                    deepCopy(g,
                             SrcValue(IF IsStructObject(g[g[src.obj].kids[src.slot]])
                                      THEN "ptrval" ELSE "header",
                                      g[src.obj].kids[src.slot], 0, 0),
                             visited, path))
      [] OTHER ->
            IF g[src.obj].nil THEN Copied(NilClone, visited)
            ELSE Built(g[src.obj].shape, 0,
                       CopySlots(g, SlotValues(g, src.obj, Base(src.obj)), 1,
                                 visited, path, <<>>))

\* DeepCopy(&dst, src) on the first object, passed by pointer or by value:
\* srcVal is addressable only behind a pointer.
TopValue(g, byPointer) ==
    IF IsStructObject(g[1])
    THEN SrcValue("struct", 1, 0, IF byPointer THEN Base(1) ELSE 0)
    ELSE SrcValue("header", 1, 0, IF byPointer THEN 1 ELSE 0)
DeepCopy(g, byPointer) == deepCopy(g, TopValue(g, byPointer), {}, {})

\* err = DeepCopy(&dst, walk.g[1]) or DeepCopy(&dst, &walk.g[1])
DeepCopyAction(byPointer) ==
    /\ walk' = [walk EXCEPT !.calls = 1, !.out = DeepCopy(walk.g, byPointer)]
    /\ last' = Logged(Call("DeepCopy", 1, 1, ArgNil, 0,
                           IF byPointer THEN "pointer" ELSE "value", <<>>))
    /\ UNCHANGED <<regs, heap, build, iter, frame>>

\* The sources: two objects, each with up to two fields, entries or
\* elements that refer to nothing, to itself or to the other one; a pointer
\* refers to a struct.
ObjectIds == {1, 2}
Objects ==
    {Object(shape, via, kids, FALSE) :
        shape \in {"structVN", "structNV", "map", "slice"}, via \in {"ptr", "iface"},
        kids \in SeqsUpTo({0} \cup ObjectIds, 2)}
    \cup {Object(shape, "iface", <<>>, TRUE) : shape \in {"map", "slice"}}
Sources ==
    {g \in [ObjectIds -> Objects] :
        \A o \in ObjectIds : g[o].via = "ptr" =>
            \A i \in DOMAIN g[o].kids :
                g[o].kids[i] = 0 \/ IsStructObject(g[g[o].kids[i]])}

InitCopy ==
    /\ build = "amd64"
    /\ InitRegs(<<ArgList("int", <<>>), ArgList("int", <<>>)>>, <<"int", "int">>)
    /\ iter = NoIter
    /\ frame = NoFrame
    /\ \E g \in Sources : walk = [NoWalk EXCEPT !.g = g]

CopyOnce == walk.calls = 0 /\ \E byPointer \in BOOLEAN : DeepCopyAction(byPointer)

NextCopy == CopyOnce

SpecCopy == InitCopy /\ [][NextCopy]_vars

\* A DeepCopy has been called; the objects an object refers to, and those
\* that can be reached from a set of objects.
CopyDone == walk.calls = 1 /\ last.op = "DeepCopy"
Referred(g, o) == {g[o].kids[i] : i \in DOMAIN g[o].kids} \ {0}
RECURSIVE Reached(_, _)
Reached(g, os) ==
    IF UNION {Referred(g, o) : o \in os} \subseteq os THEN os
    ELSE Reached(g, os \cup UNION {Referred(g, o) : o \in os})
\* No object of the source can be reached from itself.
Acyclic(g) ==
    \A o \in Reached(g, {1}) : o \notin Reached(g, Referred(g, o))
\* The source is a ring of linked nodes: structs with one pointer each,
\* none of them nil.
LinkedRing(g) ==
    \A o \in DOMAIN g :
        /\ IsStructObject(g[o]) /\ g[o].via = "ptr"
        /\ Len(g[o].kids) = 1 /\ g[o].kids[1] # 0
\* The chain of the last parts of a clone ends in nil.
RECURSIVE EndsInNil(_)
EndsInNil(c) == c = NilClone \/ (c.kids # <<>> /\ EndsInNil(c.kids[Len(c.kids)]))

\* C24: DeepCopy returns, with a nil error, on every finite source, the
\* sources with a cycle through pointers, slices, maps or interfaces
\* included; the clone of a ring of linked nodes does not lead back to its
\* own root: its chain of nodes ends.
C24_DeepCopyTerminates ==
    CopyDone
        => /\ ~walk.out.diverges
           /\ walk.out.err = ""
           /\ LinkedRing(walk.g) => EndsInNil(walk.out.clone)

\* The value of the object o of an acyclic source, part by part.
RECURSIVE ValueOfObject(_, _)
ValueOfSlot(g, o, tgt) ==
    IF tgt = 0 THEN NilClone
    ELSE IF g[o].via = "ptr" THEN Clone("ptr", <<ValueOfObject(g, tgt)>>, 0)
    ELSE IF IsStructObject(g[tgt])
    THEN Clone("iface", <<Clone("ptr", <<ValueOfObject(g, tgt)>>, 0)>>, 0)
    ELSE Clone("iface", <<ValueOfObject(g, tgt)>>, 0)
ValueOfObject(g, o) ==
    IF g[o].nil THEN NilClone
    ELSE Clone(IF IsStructObject(g[o]) THEN "struct" ELSE g[o].shape,
               [i \in DOMAIN g[o].kids |-> ValueOfSlot(g, o, g[o].kids[i])],
               IF IsStructObject(g[o]) THEN o ELSE 0)

\* C25: on an acyclic source, passed by value or by pointer, with shared
\* targets or not and whatever the layout of its structs, DeepCopy returns
\* nil and leaves in dst a deep-equal copy: each field, element and entry
\* has the value of its counterpart in src, nil slices and maps staying nil.
C25_DeepCopyEqual ==
    (CopyDone /\ Acyclic(walk.g))
        => /\ ~walk.out.diverges
           /\ walk.out.err = ""
           /\ walk.out.clone = ValueOfObject(walk.g, 1)

====
